---- MODULE Spec2Model ----
(***************************************************************************)
(* State-machine model of the data-access core:                            *)
(*   - InMemoryRepository (src/framework/dataSources/InMemoryRepository.ts)*)
(*   - BaseService        (src/framework/core/BaseService.ts)              *)
(*   - RestRepository     (src/framework/dataSources/InMemoryRepository.ts)*)
(*   - SqlRepository      (src/unnamed/part_004)                           *)
(*   - Repository decorator and RepositoryFactory (src/unnamed/part_003,   *)
(*     part_006)                                                           *)
(* Records are functions from field names to values; a Partial<T> is such  *)
(* a function on any subset of the fields.  Arrays are sequences (1-based),*)
(* so findIndex's -1 is rendered as index 0.                               *)
(***************************************************************************)
EXTENDS Integers, Sequences, FiniteSets, TLC

VARIABLES
    store,             \* InMemoryRepository.store : T[]
    transactionStack,  \* InMemoryRepository.transactionStack : T[][]
    uuidCount,         \* number of randomUUID() values handed out so far
    lastCall,          \* the repository call that produced this state, with its result
    openBegins,        \* history: findAll() as of every begin not yet committed / rolled back
    lastTx,            \* history: name of the latest transaction call ("none" at start)
    svc,               \* per caller: the BaseService call in progress
    held,              \* the array a caller got from findAll() and kept
    requests,          \* RestRepository: number of HTTP requests issued through axios so far
    restCall,          \* RestRepository: the latest call, its requests, the answer, its result
    db,                \* SqlRepository: the rows of the table, as flushed (id -> row)
    managed,           \* SqlRepository: the entities the EntityManager holds (id -> entity)
    flushes,           \* SqlRepository: number of flushes of the EntityManager so far
    sqlCall,           \* SqlRepository: the latest call, the EntityManager calls it made, its result
    reflect,           \* per model class: the metadata Reflect holds for it (key -> value)
    declared,          \* history: per model class, the metadata its @Repository was given
    factoryCall,       \* RepositoryFactory: the latest create(model) and its outcome
    pending,           \* per parallel caller: the promise of its un-awaited repository call
    issued             \* history: the un-awaited repository calls and their callers, in the order of issue

vars == <<store, transactionStack, uuidCount, lastCall, openBegins, lastTx, svc, held,
          requests, restCall, db, managed, flushes, sqlCall, reflect, declared, factoryCall,
          pending, issued>>

\* the state of the in-memory repository, and the state outside it and the service
repoVars == <<store, transactionStack, uuidCount, lastCall, openBegins, lastTx>>
restVars == <<requests, restCall>>
sqlVars == <<db, managed, flushes, sqlCall>>
factoryVars == <<reflect, declared, factoryCall>>
asyncVars == <<pending, issued>>
outsideHeld == <<restVars, sqlVars, factoryVars, asyncVars>>
sideVars == <<held, outsideHeld>>
outsideRest == <<repoVars, svc, held, sqlVars, factoryVars, asyncVars>>
outsideSql == <<repoVars, svc, held, restVars, factoryVars, asyncVars>>
outsideFactory == <<repoVars, svc, held, restVars, sqlVars, asyncVars>>
outsideAsync == <<svc, held, restVars, sqlVars, factoryVars>>

----------------------------------------------------------------------------
\* Bounds of the model
MaxStore == 2      \* create is not issued once the store holds this many records
MaxDepth == 2      \* beginTransaction is not issued beyond this nesting depth
MaxUuid == 1       \* randomUUID() is not called more often than this
MaxRequests == 3   \* no more HTTP requests than this are issued
MaxFlushes == 3    \* the EntityManager is not flushed more often than this
MaxIssued == 3     \* no more un-awaited repository calls than this are issued

----------------------------------------------------------------------------
\* Values

\* JavaScript null (result of update / findById / findOne when nothing is found)
Null == [null |-> TRUE]

\* an absent optional argument (filters?, options?)
Undefined == [undefined |-> TRUE]

\* the object literal {}
EmptyObj == [f \in {} |-> 0]

\* crypto.randomUUID(): the n-th value handed out; distinct from every other one
randomUUID(n) == "uuid-" \o ToString(n)

\* { ...a, ...b } : b's fields overlaid on a's
Spread(a, b) ==
    [f \in (DOMAIN a) \cup (DOMAIN b) |-> IF f \in DOMAIN b THEN b[f] ELSE a[f]]

\* Array.prototype.findIndex, 1-based, given the set I of indices whose element
\* satisfies the callback; 0 when there is none
FindIndex(I) ==
    IF I = {} THEN 0 ELSE CHOOSE i \in I : \A j \in I : i <= j

\* Array.prototype.find(...) ?? null, given the indices I satisfying the callback
FindOrNull(s, I) ==
    IF FindIndex(I) = 0 THEN Null ELSE s[FindIndex(I)]

\* Array.prototype.filter, given the indices I satisfying the callback
RECURSIVE Filter(_, _)
Filter(s, I) ==
    IF s = <<>> THEN <<>>
    ELSE Filter(SubSeq(s, 1, Len(s) - 1), I)
            \o (IF Len(s) \in I THEN <<s[Len(s)]>> ELSE <<>>)

\* the indices of s whose record has identifier id:  item.id === id
WithId(s, id) == { i \in 1..Len(s) : s[i]["id"] = id }

\* the ids of the records of s
IdsOf(s) == { s[i]["id"] : i \in 1..Len(s) }

\* Array.prototype.includes on an array of ids
Includes(arr, x) == \E i \in 1..Len(arr) : arr[i] = x

----------------------------------------------------------------------------
\* InMemoryRepository: effect of each method on the store, as the code computes it

\* create, lines 78-83: `n` uuids were handed out before the call
createEffect(s, n, data) ==
    LET fresh  == "id" \notin DOMAIN data          \* data.id ?? randomUUID()
        entity == Spread(data, [id |-> IF fresh THEN randomUUID(n + 1) ELSE data["id"]])
    IN  [store |-> Append(s, entity),
         uuid  |-> IF fresh THEN n + 1 ELSE n,
         ret   |-> entity]

\* update with the spread operands swapped: { ...data, ...this.store[index] }
updateEffect_oldFieldsWin(s, id, data) ==
    LET index == FindIndex(WithId(s, id))
    IN  IF index = 0
        THEN [store |-> s, ret |-> Null]
        ELSE [store |-> [s EXCEPT ![index] = Spread(data, s[index])],
              ret   |-> Spread(data, s[index])]

\* update, lines 93-96
updateEffect(s, id, data) ==
    LET index == FindIndex(WithId(s, id))
    IN  IF index = 0
        THEN [store |-> s, ret |-> Null]
        ELSE [store |-> [s EXCEPT ![index] = Spread(s[index], data)],
              ret   |-> Spread(s[index], data)]

\* delete by findIndex + splice: only the first record with the id goes
deleteEffect_firstOnly(s, id) ==
    LET index == FindIndex(WithId(s, id))
    IN  IF index = 0 THEN s
        ELSE SubSeq(s, 1, index - 1) \o SubSeq(s, index + 1, Len(s))

\* delete, line 104
deleteEffect(s, id) == Filter(s, (1..Len(s)) \ WithId(s, id))

\* deleteMany, line 69
deleteManyEffect(s, ids) == Filter(s, { i \in 1..Len(s) : ~Includes(ids, s[i]["id"]) })

\* createMany, lines 48-52: the loop over dataArr, each element through create
RECURSIVE createManyEffect(_, _, _)
createManyEffect(s, n, dataArr) ==
    IF dataArr = <<>>
    THEN [store |-> s, uuid |-> n, ret |-> <<>>]
    ELSE LET one  == createEffect(s, n, Head(dataArr))
             rest == createManyEffect(one.store, one.uuid, Tail(dataArr))
         IN  [store |-> rest.store, uuid |-> rest.uuid, ret |-> <<one.ret>> \o rest.ret]

\* updateMany that gives up at the first element it does not find
RECURSIVE updateManyEffect_stopsAtNotFound(_, _)
updateManyEffect_stopsAtNotFound(s, updates) ==
    IF updates = <<>>
    THEN [store |-> s, ret |-> <<>>]
    ELSE LET one  == updateEffect(s, Head(updates).id, Head(updates).data)
             rest == IF one.ret = Null
                     THEN [store |-> s, ret |-> [i \in 1..(Len(updates) - 1) |-> Null]]
                     ELSE updateManyEffect_stopsAtNotFound(one.store, Tail(updates))
         IN  [store |-> rest.store, ret |-> <<one.ret>> \o rest.ret]

\* updateMany, line 61: updates.map(u => this.update(u.id, u.data)), in list order;
\* update has no await, so each call has run to its end when map goes on
RECURSIVE updateManyEffect(_, _)
updateManyEffect(s, updates) ==
    IF updates = <<>>
    THEN [store |-> s, ret |-> <<>>]
    ELSE LET one  == updateEffect(s, Head(updates).id, Head(updates).data)
             rest == updateManyEffect(one.store, Tail(updates))
         IN  [store |-> rest.store, ret |-> <<one.ret>> \o rest.ret]

\* matchesFilter with some() in place of every()
matchesFilter_some(item, filters) ==
    \E k \in DOMAIN filters : k \in DOMAIN item /\ item[k] = filters[k]

\* matchesFilter, line 156: Object.entries(filters).every(([k, v]) => item[k] === v);
\* a field the item lacks reads as undefined, which equals no filter value
matchesFilter(item, filters) ==
    \A k \in DOMAIN filters : k \in DOMAIN item /\ item[k] = filters[k]

\* findById, line 113
findByIdResult(s, id) == FindOrNull(s, WithId(s, id))

\* findOne, line 122
findOneResult(s, filters) ==
    FindOrNull(s, { i \in 1..Len(s) : matchesFilter(s[i], filters) })

\* findAll, line 130: a copy of the array
findAllResult(s) == s

----------------------------------------------------------------------------
\* find, lines 139-153

\* the comparator of line 144-148: -1, 0 or 1; a missing field reads as undefined,
\* for which both < and > are false
compare(a, b, key, dir) ==
    IF key \in DOMAIN a /\ key \in DOMAIN b /\ a[key] < b[key]
    THEN (IF dir = "ASC" THEN 0 - 1 ELSE 1)
    ELSE IF key \in DOMAIN a /\ key \in DOMAIN b /\ a[key] > b[key]
    THEN (IF dir = "ASC" THEN 1 ELSE 0 - 1)
    ELSE 0

\* insertion of x behind the leading elements that do not sort after it
RECURSIVE InsertSorted(_, _, _, _)
InsertSorted(sorted, x, key, dir) ==
    IF sorted = <<>> THEN <<x>>
    ELSE IF compare(Head(sorted), x, key, dir) <= 0
         THEN <<Head(sorted)>> \o InsertSorted(Tail(sorted), x, key, dir)
         ELSE <<x>> \o sorted

\* Array.prototype.sort with a consistent comparator: a stable sort
RECURSIVE StableSort(_, _, _)
StableSort(s, key, dir) ==
    IF s = <<>> THEN <<>>
    ELSE InsertSorted(StableSort(SubSeq(s, 1, Len(s) - 1), key, dir), s[Len(s)], key, dir)

\* every reordering of s
Reorderings(s) ==
    { [i \in 1..Len(s) |-> s[f[i]]] :
        f \in { g \in [1..Len(s) -> 1..Len(s)] : \A i, j \in 1..Len(s) : g[i] = g[j] => i = j } }

\* the comparator is a consistent one on s: "compares equal" is transitive
ConsistentComparator(s, key, dir) ==
    \A i, j, k \in 1..Len(s) :
        (compare(s[i], s[j], key, dir) = 0 /\ compare(s[j], s[k], key, dir) = 0)
            => compare(s[i], s[k], key, dir) = 0

\* results.sort(comparator): the orders the language allows (implementation-defined
\* when the comparator is not consistent)
SortOutcomes(s, key, dir) ==
    IF ConsistentComparator(s, key, dir) THEN {StableSort(s, key, dir)} ELSE Reorderings(s)

\* Array.prototype.slice(from) for from >= 0
SliceFrom(s, from) == SubSeq(s, from + 1, Len(s))

\* Array.prototype.slice(0, to) for to >= 0
SliceTo(s, to) == SubSeq(s, 1, IF to < Len(s) THEN to ELSE Len(s))

\* options?.<name> is truthy
Truthy(options, name) ==
    /\ options # Undefined
    /\ name \in DOMAIN options
    /\ (name \in {"offset", "limit"} => options[name] # 0)

\* lines 140-149: the matching records of s in the orders the sort may leave them in
findOrdered(s, filters, options) ==
    LET matched == IF filters # Undefined
                   THEN Filter(s, { i \in 1..Len(s) : matchesFilter(s[i], filters) })
                   ELSE s
    IN  IF Truthy(options, "orderBy")
        THEN SortOutcomes(matched, options["orderBy"].key, options["orderBy"].dir)
        ELSE {matched}

\* lines 150-151: the offset is cut off first, then the limit is applied
findSliced(r, options) ==
    LET skipped == IF Truthy(options, "offset") THEN SliceFrom(r, options["offset"]) ELSE r
    IN  IF Truthy(options, "limit") THEN SliceTo(skipped, options["limit"]) ELSE skipped

\* the set of arrays find(filters, options) may return on store s
findResults(s, filters, options) ==
    { findSliced(r, options) : r \in findOrdered(s, filters, options) }

\* as if line 140 ended in ": this.store", so that the sort worked on the store itself
findAliasesStore_noCopy(filters) == filters = Undefined

\* line 140: results is a new array on both branches, this.store.filter(...) with
\* filters and [...this.store] without, so the in-place sort of line 144 never works on
\* the array the store holds
findAliasesStore(filters) == FALSE

----------------------------------------------------------------------------
\* InMemoryRepository: the methods as actions on the repository state.
\* None of them constrains svc; the caller of the method does.

\* line 22-24
beginTransaction ==
    /\ Len(transactionStack) < MaxDepth
    /\ transactionStack' = Append(transactionStack, store)      \* push([...this.store])
    /\ openBegins' = Append(openBegins, findAllResult(store))
    /\ lastTx' = "begin"
    /\ lastCall' = [op |-> "beginTransaction", threw |-> FALSE,
                    depth |-> Len(transactionStack), prevTx |-> lastTx, replaced |-> store]
    /\ UNCHANGED <<store, uuidCount>>

\* commitTransaction that forgets to pop the snapshot
commitTransaction_keepsSnapshot ==
    /\ openBegins' = IF openBegins = <<>> THEN <<>>
                     ELSE SubSeq(openBegins, 1, Len(openBegins) - 1)
    /\ lastTx' = "commit"
    /\ lastCall' = [op |-> "commitTransaction", threw |-> FALSE,
                    depth |-> Len(transactionStack), prevTx |-> lastTx, replaced |-> store]
    /\ UNCHANGED <<store, transactionStack, uuidCount>>

\* line 29-31: Array.prototype.pop, a no-op on the empty array
commitTransaction ==
    /\ transactionStack' = IF transactionStack = <<>> THEN <<>>
                           ELSE SubSeq(transactionStack, 1, Len(transactionStack) - 1)
    /\ openBegins' = IF openBegins = <<>> THEN <<>>
                     ELSE SubSeq(openBegins, 1, Len(openBegins) - 1)
    /\ lastTx' = "commit"
    /\ lastCall' = [op |-> "commitTransaction", threw |-> FALSE,
                    depth |-> Len(transactionStack), prevTx |-> lastTx, replaced |-> store]
    /\ UNCHANGED <<store, uuidCount>>

\* rollbackTransaction that pops the snapshot without restoring it
rollbackTransaction_noRestore ==
    /\ transactionStack' = IF transactionStack = <<>> THEN <<>>
                           ELSE SubSeq(transactionStack, 1, Len(transactionStack) - 1)
    /\ openBegins' = IF openBegins = <<>> THEN <<>>
                     ELSE SubSeq(openBegins, 1, Len(openBegins) - 1)
    /\ lastTx' = "rollback"
    /\ lastCall' = [op |-> "rollbackTransaction", threw |-> FALSE,
                    depth |-> Len(transactionStack), prevTx |-> lastTx, replaced |-> store]
    /\ UNCHANGED <<store, uuidCount>>

\* rollbackTransaction without the length guard: this.store = this.transactionStack.pop() ?? []
rollbackTransaction_unguarded ==
    /\ store' = IF transactionStack = <<>> THEN <<>>
                ELSE transactionStack[Len(transactionStack)]
    /\ transactionStack' = IF transactionStack = <<>> THEN <<>>
                           ELSE SubSeq(transactionStack, 1, Len(transactionStack) - 1)
    /\ openBegins' = IF openBegins = <<>> THEN <<>>
                     ELSE SubSeq(openBegins, 1, Len(openBegins) - 1)
    /\ lastTx' = "rollback"
    /\ lastCall' = [op |-> "rollbackTransaction", threw |-> FALSE,
                    depth |-> Len(transactionStack), prevTx |-> lastTx, replaced |-> store]
    /\ UNCHANGED uuidCount

\* line 36-40
rollbackTransaction ==
    /\ IF Len(transactionStack) > 0
       THEN /\ store' = transactionStack[Len(transactionStack)]
            /\ transactionStack' = SubSeq(transactionStack, 1, Len(transactionStack) - 1)
       ELSE UNCHANGED <<store, transactionStack>>
    /\ openBegins' = IF openBegins = <<>> THEN <<>>
                     ELSE SubSeq(openBegins, 1, Len(openBegins) - 1)
    /\ lastTx' = "rollback"
    /\ lastCall' = [op |-> "rollbackTransaction", threw |-> FALSE,
                    depth |-> Len(transactionStack), prevTx |-> lastTx, replaced |-> store]
    /\ UNCHANGED uuidCount

\* line 77-84
create(data) ==
    /\ Len(store) < MaxStore
    /\ ("id" \notin DOMAIN data => uuidCount < MaxUuid)
    /\ LET e == createEffect(store, uuidCount, data)
       IN  /\ store' = e.store
           /\ uuidCount' = e.uuid
           /\ lastCall' = [op |-> "create", threw |-> FALSE, data |-> data, ret |-> e.ret]
    /\ UNCHANGED <<transactionStack, openBegins, lastTx>>

\* line 92-97
update(id, data) ==
    /\ LET e == updateEffect(store, id, data)
       IN  /\ store' = e.store
           /\ lastCall' = [op |-> "update", threw |-> FALSE, id |-> id, data |-> data,
                           ret |-> e.ret]
    /\ UNCHANGED <<transactionStack, uuidCount, openBegins, lastTx>>

\* line 103-105
delete(id) ==
    /\ store' = deleteEffect(store, id)
    /\ lastCall' = [op |-> "delete", threw |-> FALSE, id |-> id, replaced |-> store]
    /\ UNCHANGED <<transactionStack, uuidCount, openBegins, lastTx>>

\* line 47-53
createMany(dataArr) ==
    /\ Len(store) + Len(dataArr) <= MaxStore
    /\ LET e == createManyEffect(store, uuidCount, dataArr)
       IN  /\ e.uuid <= MaxUuid
           /\ store' = e.store
           /\ uuidCount' = e.uuid
           /\ lastCall' = [op |-> "createMany", threw |-> FALSE, dataArr |-> dataArr,
                           rets |-> e.ret]
    /\ UNCHANGED <<transactionStack, openBegins, lastTx>>

\* line 60-62
updateMany(updates) ==
    /\ LET e == updateManyEffect(store, updates)
       IN  /\ store' = e.store
           /\ lastCall' = [op |-> "updateMany", threw |-> FALSE, updates |-> updates,
                           rets |-> e.ret]
    /\ UNCHANGED <<transactionStack, uuidCount, openBegins, lastTx>>

\* line 68-70
deleteMany(ids) ==
    /\ store' = deleteManyEffect(store, ids)
    /\ lastCall' = [op |-> "deleteMany", threw |-> FALSE, ids |-> ids, replaced |-> store]
    /\ UNCHANGED <<transactionStack, uuidCount, openBegins, lastTx>>

\* line 112-114
findById(id) ==
    /\ lastCall' = [op |-> "findById", threw |-> FALSE, id |-> id,
                    ret |-> findByIdResult(store, id)]
    /\ UNCHANGED <<store, transactionStack, uuidCount, openBegins, lastTx>>

\* line 121-123
findOne(filters) ==
    /\ lastCall' = [op |-> "findOne", threw |-> FALSE, filters |-> filters,
                    ret |-> findOneResult(store, filters)]
    /\ UNCHANGED <<store, transactionStack, uuidCount, openBegins, lastTx>>

\* line 129-131
findAll ==
    /\ lastCall' = [op |-> "findAll", threw |-> FALSE, rets |-> findAllResult(store)]
    /\ UNCHANGED <<store, transactionStack, uuidCount, openBegins, lastTx>>

\* line 139-153
find(filters, options) ==
    /\ \E r \in findOrdered(store, filters, options) :
          /\ lastCall' = [op |-> "find", threw |-> FALSE, filters |-> filters,
                          options |-> options, rets |-> findSliced(r, options)]
          /\ store' = IF findAliasesStore(filters) /\ Truthy(options, "orderBy")
                      THEN r
                      ELSE store
    /\ UNCHANGED <<transactionStack, uuidCount, openBegins, lastTx>>

----------------------------------------------------------------------------
\* Inputs of the repository's direct caller

CallerIds == {"p1"}

\* ids a caller can name: its own, and the ones the store has generated so far
IdInputs == CallerIds \cup { randomUUID(n) : n \in 1..uuidCount }

\* every list over S of length at most 2
ListsOver(S) == {<<>>} \cup { <<a>> : a \in S } \cup { <<a, b>> : a, b \in S }

----------------------------------------------------------------------------
\* BaseService<Product>: the calls in progress, one per caller.  A call is suspended at
\* each await of create / update / delete (lines 30-32, 46-48, 59-61); pc names the
\* promise it is waiting for.

Callers == {1}

\* a caller with no call in progress
IdleCall ==
    [pc |-> "idle", op |-> "none", hooks |-> "default", id |-> "", data |-> EmptyObj,
     ret |-> Null, events |-> <<>>, raised |-> "none", error |-> "none"]

\* strings of UUID shape: the generated ones and "uuid-0", one a caller wrote itself
IsUUID(v) == v \in { randomUUID(n) : n \in 0..(MaxUuid + 1) }

\* validateOrReject on Object.assign(new Product(), data): TRUE when it resolves.
\* The rules are Product's decorators; none is @IsOptional, so each applies to a
\* missing (undefined) property too and fails on it.
validateOrReject(instance) ==
    /\ {"id", "name", "price", "tax", "totalPrice"} \subseteq DOMAIN instance
    /\ IsUUID(instance["id"])              \* @IsUUID
    /\ instance["name"] # ""               \* @IsString @IsNotEmpty
    /\ instance["price"] >= 0              \* @IsNumber @Min(0)
    /\ instance["tax"] >= 0
    /\ instance["totalPrice"] >= 0

\* the hook and repository method names of an operation
BeforeHook(op) ==
    IF op = "create" THEN "beforeCreate" ELSE IF op = "update" THEN "beforeUpdate"
    ELSE "beforeDelete"
RepoMethod(op) ==
    IF op = "create" THEN "repo.create" ELSE IF op = "update" THEN "repo.update"
    ELSE "repo.delete"
AfterHook(op) ==
    IF op = "create" THEN "afterCreate" ELSE IF op = "update" THEN "afterUpdate"
    ELSE "afterDelete"

\* whether the before-hook of call k rejects.  The default hooks (lines 117-161)
\* validate on create and update and do nothing on delete; a subclass's override may
\* raise or not, whatever the data (overrideRaises).
beforeHookRejects(k, overrideRaises) ==
    IF k.hooks = "override" THEN overrideRaises
    ELSE k.op \in {"create", "update"} /\ ~validateOrReject(k.data)

\* the error the caller sees when the before-hook of call k rejects
beforeHookError(k) ==
    IF k.hooks = "override" THEN "BeforeHookError" ELSE "ValidationFailed"

\* lines 29-30, 45-46, 58-59: the call is entered and its before-hook invoked
BaseService_call(c, op, id, data, hooks) ==
    /\ svc[c].pc \in {"idle", "returned", "threw"}
    /\ svc' = [svc EXCEPT ![c] =
                  [pc |-> "awaitBefore", op |-> op, hooks |-> hooks, id |-> id, data |-> data,
                   ret |-> Null, raised |-> "none", error |-> "none",
                   events |-> <<[name |-> BeforeHook(op), id |-> id, arg |-> data]>>]]
    /\ UNCHANGED <<store, transactionStack, uuidCount, lastCall, openBegins, lastTx>>

\* the repository method of call k, lines 31, 47, 60
repoCall(k) ==
    IF k.op = "create" THEN create(k.data)
    ELSE IF k.op = "update" THEN update(k.id, k.data)
    ELSE delete(k.id)

\* the before-hook settles without the await: the store is called whatever it did
BaseService_beforeSettled_notAwaited(c, overrideRaises) ==
    /\ svc[c].pc = "awaitBefore"
    /\ repoCall(svc[c])
    /\ svc' = [svc EXCEPT ![c].pc = "awaitRepo",
                          ![c].raised = IF beforeHookRejects(svc[c], overrideRaises)
                                        THEN "before" ELSE "none",
                          ![c].ret = IF svc[c].op = "delete" THEN Null ELSE lastCall'.ret,
                          ![c].events = Append(@, [name |-> RepoMethod(svc[c].op),
                                                   id |-> svc[c].id, arg |-> svc[c].data])]

\* the before-hook's promise settles (await of line 30, 46, 59): a rejection ends the
\* call, otherwise the repository method runs (line 31, 47, 60)
BaseService_beforeSettled(c, overrideRaises) ==
    /\ svc[c].pc = "awaitBefore"
    /\ IF beforeHookRejects(svc[c], overrideRaises)
       THEN /\ svc' = [svc EXCEPT ![c].pc = "threw", ![c].raised = "before",
                                  ![c].error = beforeHookError(svc[c])]
            /\ UNCHANGED <<store, transactionStack, uuidCount, lastCall, openBegins, lastTx>>
       ELSE /\ repoCall(svc[c])
            /\ svc' = [svc EXCEPT ![c].pc = "awaitRepo",
                                  ![c].ret = IF svc[c].op = "delete" THEN Null
                                             ELSE lastCall'.ret,
                                  ![c].events = Append(@, [name |-> RepoMethod(svc[c].op),
                                                           id |-> svc[c].id,
                                                           arg |-> svc[c].data])]

\* the after-hook invoked only for a result that is not null
BaseService_repoSettled_skipsNull(c) ==
    /\ svc[c].pc = "awaitRepo"
    /\ svc' = IF svc[c].op = "update" /\ svc[c].ret = Null
              THEN [svc EXCEPT ![c].pc = "awaitAfter"]
              ELSE [svc EXCEPT ![c].pc = "awaitAfter",
                               ![c].events = Append(@, [name |-> AfterHook(svc[c].op),
                                                        id |-> svc[c].id,
                                                        arg |-> svc[c].ret])]
    /\ UNCHANGED <<store, transactionStack, uuidCount, lastCall, openBegins, lastTx>>

\* the repository's promise settles (await of line 31, 47, 60) and the after-hook is
\* invoked with the result: afterCreate(instance), afterUpdate(updated), afterDelete(id)
BaseService_repoSettled(c) ==
    /\ svc[c].pc = "awaitRepo"
    /\ svc' = [svc EXCEPT ![c].pc = "awaitAfter",
                          ![c].events = Append(@, [name |-> AfterHook(svc[c].op),
                                                   id |-> svc[c].id,
                                                   arg |-> svc[c].ret])]
    /\ UNCHANGED <<store, transactionStack, uuidCount, lastCall, openBegins, lastTx>>

\* an after-hook failure that takes the created record out of the store again
BaseService_afterSettled_undoes(c, overrideRaises) ==
    /\ svc[c].pc = "awaitAfter"
    /\ IF svc[c].hooks = "override" /\ overrideRaises
       THEN /\ svc' = [svc EXCEPT ![c].pc = "threw", ![c].raised = "after",
                                  ![c].error = "AfterHookError"]
            /\ store' = IF svc[c].op = "create"
                        THEN deleteEffect(store, svc[c].ret["id"]) ELSE store
       ELSE /\ svc' = [svc EXCEPT ![c].pc = "returned"]
            /\ UNCHANGED store
    /\ UNCHANGED <<transactionStack, uuidCount, lastCall, openBegins, lastTx>>

\* the after-hook's promise settles (await of line 32, 48, 61): a rejection propagates,
\* otherwise the call returns (line 33, 49).  The default after-hooks are empty.
BaseService_afterSettled(c, overrideRaises) ==
    /\ svc[c].pc = "awaitAfter"
    /\ svc' = IF svc[c].hooks = "override" /\ overrideRaises
              THEN [svc EXCEPT ![c].pc = "threw", ![c].raised = "after",
                               ![c].error = "AfterHookError"]
              ELSE [svc EXCEPT ![c].pc = "returned"]
    /\ UNCHANGED <<store, transactionStack, uuidCount, lastCall, openBegins, lastTx>>

----------------------------------------------------------------------------
\* ProductService (src/tests/services/ProductReviewService.ts lines 15-37): a
\* BaseService<Product> whose create computes tax and totalPrice and whose beforeCreate
\* adds a probe for the name after the default validation.

\* Math.round(price * 0.21) for an integer price: the double product rounds as the exact
\* one does, half up (compared for every price from 0 to 200000)
roundedTax(price) == (21 * price + 50) \div 100

\* data.price || 0
priceOrZero(data) == IF "price" \in DOMAIN data THEN data["price"] ELSE 0

\* lines 31-36 and BaseService lines 29-30: create lays tax and totalPrice over the data
\* and calls super.create, which invokes beforeCreate, which invokes the default
\* validation and waits for it
ProductService_create(c, data) ==
    /\ svc[c].pc \in {"idle", "returned", "threw"}
    /\ LET tax   == roundedTax(priceOrZero(data))
           full  == Spread(data, [tax |-> tax, totalPrice |-> priceOrZero(data) + tax])
       IN  svc' = [svc EXCEPT ![c] =
                      [pc |-> "awaitValidate", op |-> "create", hooks |-> "product", id |-> "",
                       data |-> full, ret |-> Null, raised |-> "none", error |-> "none",
                       events |-> <<[name |-> "beforeCreate", id |-> "", arg |-> full]>>,
                       input |-> data, probe |-> Null,
                       taken |-> "name" \in DOMAIN data
                                    /\ findOneResult(store, [name |-> data["name"]]) # Null]]
    /\ UNCHANGED repoVars

\* lines 21-24: the validation settles (await super.beforeCreate); a rejection ends the
\* call, otherwise a non-empty name is probed for with repo.findOne
ProductService_validated(c) ==
    /\ svc[c].pc = "awaitValidate"
    /\ IF ~validateOrReject(svc[c].data)
       THEN /\ svc' = [svc EXCEPT ![c].pc = "threw", ![c].raised = "before",
                                  ![c].error = "ValidationFailed"]
            /\ UNCHANGED repoVars
       ELSE IF "name" \in DOMAIN svc[c].data /\ svc[c].data["name"] # ""
       THEN /\ findOne([name |-> svc[c].data["name"]])
            /\ svc' = [svc EXCEPT ![c].pc = "awaitFindOne",
                                  ![c].probe = lastCall'.ret,
                                  ![c].events = Append(@, [name |-> "repo.findOne", id |-> "",
                                                           arg |-> [name |-> svc[c].data["name"]]])]
       ELSE /\ svc' = [svc EXCEPT ![c].pc = "awaitBefore"]
            /\ UNCHANGED repoVars

\* as if beforeCreate went on whatever the probe had found
ProductService_findOneSettled_ignoresProbe(c) ==
    /\ svc[c].pc = "awaitFindOne"
    /\ svc' = [svc EXCEPT ![c].pc = "awaitBefore"]
    /\ UNCHANGED repoVars

\* lines 24-27: the probe settles (await this.repo.findOne); a record found makes
\* beforeCreate throw, otherwise beforeCreate is done
ProductService_findOneSettled(c) ==
    /\ svc[c].pc = "awaitFindOne"
    /\ svc' = IF svc[c].probe # Null
              THEN [svc EXCEPT ![c].pc = "threw", ![c].raised = "before",
                               ![c].error = "Product name '" \o svc[c].data["name"]
                                               \o "' already exists."]
              ELSE [svc EXCEPT ![c].pc = "awaitBefore"]
    /\ UNCHANGED repoVars

----------------------------------------------------------------------------
\* RestRepository (InMemoryRepository.ts lines 176-311): every method is one axios call,
\* awaited, with no try/catch around it.  The endpoint is outside the program: its
\* answer to a request is an input of the method.

\* the baseUrl UserRepository passes to the constructor
baseUrl == "https://api.example.com/users"

\* `${this.baseUrl}/${id}`
urlOf(id) == baseUrl \o "/" \o id

\* this.baseUrl + '/bulk'
bulkUrl == baseUrl \o "/bulk"

\* axios settles the promise: it rejects on a transport failure and, with its default
\* validateStatus, on every status outside 200..299
axiosRejects(resp) ==
    resp.kind = "transportError" \/ resp.status < 200 \/ resp.status > 299

\* the error axios rejects with
axiosError(resp) ==
    IF resp.kind = "transportError" THEN "Network Error"
    ELSE "Request failed with status code " \o ToString(resp.status)

\* a request that is sent again once after a failure
axiosCall_retries(op, req, resp, ret, rets) ==
    /\ requests + 1 < MaxRequests
    /\ requests' = IF axiosRejects(resp) THEN requests + 2 ELSE requests + 1
    /\ restCall' = [op |-> op, resp |-> resp,
                    requests |-> IF axiosRejects(resp) THEN <<req, req>> ELSE <<req>>,
                    threw |-> axiosRejects(resp),
                    error |-> IF axiosRejects(resp) THEN axiosError(resp) ELSE "none",
                    ret |-> IF axiosRejects(resp) THEN Null ELSE ret,
                    rets |-> IF axiosRejects(resp) THEN <<>> ELSE rets]

\* `const response = await axios.<method>(url, ...); return <result>;` of method op:
\* the request req is issued, the endpoint answers resp, and the method returns
\* ret / rets (taken from the answer) or throws what axios rejected with
axiosCall(op, req, resp, ret, rets) ==
    /\ requests < MaxRequests
    /\ requests' = requests + 1
    /\ restCall' = [op |-> op, resp |-> resp, requests |-> <<req>>,
                    threw |-> axiosRejects(resp),
                    error |-> IF axiosRejects(resp) THEN axiosError(resp) ELSE "none",
                    ret |-> IF axiosRejects(resp) THEN Null ELSE ret,
                    rets |-> IF axiosRejects(resp) THEN <<>> ELSE rets]

\* response.data of an answer carrying one entity (or null)
dataOf(resp) == IF "data" \in DOMAIN resp THEN resp.data ELSE Null

\* response.data of an answer carrying an array
rowsOf(resp) == IF "rows" \in DOMAIN resp THEN resp.rows ELSE <<>>

\* lines 188-191
rest_createMany(dataArr, resp) ==
    axiosCall("createMany", [method |-> "POST", url |-> bulkUrl, bodyList |-> dataArr],
              resp, Null, rowsOf(resp))

\* lines 198-201
rest_updateMany(updates, resp) ==
    axiosCall("updateMany", [method |-> "PUT", url |-> bulkUrl, updates |-> updates],
              resp, Null, rowsOf(resp))

\* lines 207-213
rest_deleteMany(ids, resp) ==
    axiosCall("deleteMany", [method |-> "DELETE", url |-> bulkUrl, ids |-> ids],
              resp, Null, <<>>)

\* lines 221-224
rest_create(data, resp) ==
    axiosCall("create", [method |-> "POST", url |-> baseUrl, body |-> data],
              resp, dataOf(resp), <<>>)

\* lines 232-235
rest_update(id, data, resp) ==
    axiosCall("update", [method |-> "PUT", url |-> urlOf(id), id |-> id, body |-> data],
              resp, dataOf(resp), <<>>)

\* lines 241-243
rest_delete(id, resp) ==
    axiosCall("delete", [method |-> "DELETE", url |-> urlOf(id), id |-> id],
              resp, Null, <<>>)

\* lines 250-253
rest_findById(id, resp) ==
    axiosCall("findById", [method |-> "GET", url |-> urlOf(id), id |-> id],
              resp, dataOf(resp), <<>>)

\* lines 260-263: response.data[0] ?? null
rest_findOne(filters, resp) ==
    axiosCall("findOne", [method |-> "GET", url |-> baseUrl, params |-> filters],
              resp, IF rowsOf(resp) = <<>> THEN Null ELSE rowsOf(resp)[1], <<>>)

\* lines 269-272
rest_findAll(resp) ==
    axiosCall("findAll", [method |-> "GET", url |-> baseUrl], resp, Null, rowsOf(resp))

\* lines 282-285: { ...filters } plus the options that are truthy
restFindParams(filters, options) ==
    LET f == IF filters = Undefined THEN EmptyObj ELSE filters
        names == { n \in {"limit", "offset", "orderBy"} : Truthy(options, n) }
    IN  Spread(f, [n \in names |-> options[n]])

\* lines 280-288
rest_find(filters, options, resp) ==
    axiosCall("find", [method |-> "GET", url |-> baseUrl,
                       params |-> restFindParams(filters, options)],
              resp, Null, rowsOf(resp))

\* a transaction method that resolves without doing anything
rest_unsupported_resolves(op) ==
    /\ restCall' = [op |-> op, requests |-> <<>>, threw |-> FALSE, error |-> "none",
                    ret |-> Null, rets |-> <<>>]
    /\ UNCHANGED requests

\* lines 293-309: throw new Error("Operation not supported."), before anything else
rest_unsupported(op) ==
    /\ restCall' = [op |-> op, requests |-> <<>>, threw |-> TRUE,
                    error |-> "Operation not supported.", ret |-> Null, rets |-> <<>>]
    /\ UNCHANGED requests

\* lines 293-295
rest_beginTransaction == rest_unsupported("beginTransaction")

\* lines 300-302
rest_commitTransaction == rest_unsupported("commitTransaction")

\* lines 307-309
rest_rollbackTransaction == rest_unsupported("rollbackTransaction")

----------------------------------------------------------------------------
\* A caller that keeps the array findAll() returned and changes it.  held.arr is the
\* array's content and held.isStore tells whether it is the very array this.store
\* refers to, in which case a change of the one is a change of the other.

\* findAll returning this.store itself
findAllSharesStore_noCopy == TRUE

\* line 130: [...this.store] is a new array, not the one this.store refers to
findAllSharesStore == FALSE

\* s = await repo.findAll(), kept by the caller
findAllKept ==
    /\ findAll
    /\ held' = [arr |-> lastCall'.rets, isStore |-> findAllSharesStore]

\* the caller's s.push(x), s.pop() or s.reverse(): newArr is the array's new content
callerMutates(newArr) ==
    /\ newArr # held.arr
    /\ held' = [held EXCEPT !.arr = newArr]
    /\ store' = IF held.isStore THEN newArr ELSE store
    /\ UNCHANGED <<transactionStack, uuidCount, lastCall, openBegins, lastTx>>

\* a repository method that assigns a new array to this.store (delete, line 104;
\* deleteMany, line 69; rollbackTransaction, line 38): the kept array is no longer it
reassignsStore(method) ==
    /\ method
    /\ held' = [held EXCEPT !.isStore = FALSE]

\* the arrays the caller can turn s into with one push, pop or reverse
CallerRecord == [id |-> "p1", name |-> "Mine"]
Reverse(s) == [i \in 1..Len(s) |-> s[Len(s) + 1 - i]]
CallerMutations(s) ==
    (IF Len(s) <= MaxStore THEN {Append(s, CallerRecord)} ELSE {})
        \cup (IF s # <<>> THEN {SubSeq(s, 1, Len(s) - 1)} ELSE {})
        \cup {Reverse(s)}

----------------------------------------------------------------------------
\* SqlRepository (src/unnamed/part_004): every method delegates to the EntityManager
\* this.em.  The EntityManager is outside the program; what is modelled of it is its
\* unit of work: the entities it holds (managed), which a flush writes to the table (db).

\* function m with key k bound to v
WithKey(m, k, v) == [i \in (DOMAIN m) \cup {k} |-> IF i = k THEN v ELSE m[i]]

\* function m without the keys in ks
WithoutKeys(m, ks) == [i \in (DOMAIN m) \ ks |-> m[i]]

\* em.findOne(entityClass, { id }): the entity held for the id, else the row read from
\* the table, else null
emFindOne(m, d, id) ==
    IF id \in DOMAIN m THEN m[id] ELSE IF id \in DOMAIN d THEN d[id] ELSE Null

\* the entities held after em.findOne(entityClass, { id }): a row read becomes managed
emAfterFindOne(m, d, id) ==
    IF id \notin DOMAIN m /\ id \in DOMAIN d THEN WithKey(m, id, d[id]) ELSE m

\* em.assign(entity, data) on the entity held for id
emAssign(m, id, data) == [m EXCEPT ![id] = Spread(m[id], data)]

\* the table after em.flush(): every entity held is written
emFlush(m, d) ==
    [i \in (DOMAIN d) \cup (DOMAIN m) |-> IF i \in DOMAIN m THEN m[i] ELSE d[i]]

\* update that assigns and returns without flushing
sql_update_noFlush(id, data) ==
    LET entity == emFindOne(managed, db, id)
        m1     == emAfterFindOne(managed, db, id)
    IN  IF entity = Null
        THEN /\ sqlCall' = [op |-> "update", threw |-> FALSE, id |-> id, data |-> data,
                            ret |-> Null, em |-> <<"findOne">>]
             /\ UNCHANGED <<db, managed, flushes>>
        ELSE /\ managed' = emAssign(m1, id, data)
             /\ sqlCall' = [op |-> "update", threw |-> FALSE, id |-> id, data |-> data,
                            ret |-> managed'[id], em |-> <<"findOne", "assign">>]
             /\ UNCHANGED <<db, flushes>>

\* lines 118-122
sql_create(data) ==
    /\ flushes < MaxFlushes
    /\ managed' = WithKey(managed, data["id"], data)       \* em.create, then persist
    /\ db' = emFlush(managed', db)                          \* ... AndFlush, awaited
    /\ flushes' = flushes + 1
    /\ sqlCall' = [op |-> "create", threw |-> FALSE, id |-> data["id"], data |-> data,
                   ret |-> data, em |-> <<"create", "persistAndFlush">>]

\* lines 131-139
sql_update(id, data) ==
    LET entity == emFindOne(managed, db, id)
        m1     == emAfterFindOne(managed, db, id)
    IN  IF entity = Null
        THEN /\ sqlCall' = [op |-> "update", threw |-> FALSE, id |-> id, data |-> data,
                            ret |-> Null, em |-> <<"findOne">>]
             /\ UNCHANGED <<db, managed, flushes>>
        ELSE /\ flushes < MaxFlushes
             /\ managed' = emAssign(m1, id, data)
             /\ db' = emFlush(managed', db)
             /\ flushes' = flushes + 1
             /\ sqlCall' = [op |-> "update", threw |-> FALSE, id |-> id, data |-> data,
                            ret |-> managed'[id],
                            em |-> <<"findOne", "assign", "persistAndFlush">>]

\* lines 146-151
sql_delete(id) ==
    LET entity == emFindOne(managed, db, id)
    IN  IF entity = Null
        THEN /\ sqlCall' = [op |-> "delete", threw |-> FALSE, id |-> id, em |-> <<"findOne">>]
             /\ UNCHANGED <<db, managed, flushes>>
        ELSE /\ flushes < MaxFlushes
             /\ managed' = WithoutKeys(managed, {id})       \* em.remove
             /\ db' = WithoutKeys(emFlush(managed', db), {id})
             /\ flushes' = flushes + 1
             /\ sqlCall' = [op |-> "delete", threw |-> FALSE, id |-> id,
                            em |-> <<"findOne", "removeAndFlush">>]

\* lines 78-80
sql_findById(id) ==
    /\ managed' = emAfterFindOne(managed, db, id)
    /\ sqlCall' = [op |-> "findById", threw |-> FALSE, id |-> id,
                   ret |-> emFindOne(managed, db, id), em |-> <<"findOne">>]
    /\ UNCHANGED <<db, flushes>>

\* lines 88-90, for a filter the rows are read by: the first row that matches
sql_findOne(filters) ==
    LET ids == { i \in (DOMAIN db) \cup (DOMAIN managed) :
                    matchesFilter(emFindOne(managed, db, i), filters) }
    IN  /\ \E pick \in (IF ids = {} THEN {Null}
                        ELSE { emFindOne(managed, db, i) : i \in ids }) :
              /\ sqlCall' = [op |-> "findOne", threw |-> FALSE, filters |-> filters,
                             ret |-> pick, em |-> <<"findOne">>]
              /\ managed' = IF pick = Null THEN managed
                            ELSE emAfterFindOne(managed, db, pick["id"])
        /\ UNCHANGED <<db, flushes>>

\* lines 38-47, the loop of updateMany: the entities held after it, per element the id
\* found (or Null), and the EntityManager calls made
RECURSIVE sqlUpdateManyLoop(_, _, _)
sqlUpdateManyLoop(m, d, updates) ==
    IF updates = <<>>
    THEN [managed |-> m, found |-> <<>>, em |-> <<>>]
    ELSE LET id   == Head(updates).id
             hit  == emFindOne(m, d, id) # Null
             m1   == IF hit THEN emAssign(emAfterFindOne(m, d, id), id, Head(updates).data)
                     ELSE m
             rest == sqlUpdateManyLoop(m1, d, Tail(updates))
         IN  [managed |-> rest.managed,
              found   |-> <<IF hit THEN [id |-> id] ELSE Null>> \o rest.found,
              em      |-> (IF hit THEN <<"findOne", "assign">> ELSE <<"findOne">>) \o rest.em]

\* updateMany that flushes after every element it found
sql_updateMany_flushesEach(updates) ==
    LET loop  == sqlUpdateManyLoop(managed, db, updates)
        found == { i \in 1..Len(updates) : loop.found[i] # Null }
    IN  /\ flushes + Cardinality(found) <= MaxFlushes
        /\ managed' = loop.managed
        /\ db' = emFlush(managed', db)
        /\ flushes' = flushes + Cardinality(found)
        /\ sqlCall' = [op |-> "updateMany", threw |-> FALSE, updates |-> updates,
                       rets |-> [i \in 1..Len(updates) |->
                                    IF i \in found THEN managed'[updates[i].id] ELSE Null],
                       flushed |-> Filter(loop.found, found),
                       em |-> loop.em]

\* lines 37-50: the results hold the entities themselves, so each shows what all the
\* assigns made of it; persistAndFlush gets the found ones and is called in any case
sql_updateMany(updates) ==
    LET loop  == sqlUpdateManyLoop(managed, db, updates)
        found == { i \in 1..Len(updates) : loop.found[i] # Null }
    IN  /\ flushes < MaxFlushes
        /\ managed' = loop.managed
        /\ db' = emFlush(managed', db)
        /\ flushes' = flushes + 1
        /\ sqlCall' = [op |-> "updateMany", threw |-> FALSE, updates |-> updates,
                       rets |-> [i \in 1..Len(updates) |->
                                    IF i \in found THEN managed'[updates[i].id] ELSE Null],
                       flushed |-> Filter(loop.found, found),
                       em |-> loop.em \o <<"persistAndFlush">>]

\* lines 26-30
sql_createMany(dataArr) ==
    /\ flushes < MaxFlushes
    /\ managed' = [i \in (DOMAIN managed) \cup { dataArr[k]["id"] : k \in 1..Len(dataArr) } |->
                      IF \E k \in 1..Len(dataArr) : dataArr[k]["id"] = i
                      THEN dataArr[CHOOSE k \in 1..Len(dataArr) : dataArr[k]["id"] = i]
                      ELSE managed[i]]
    /\ db' = emFlush(managed', db)
    /\ flushes' = flushes + 1
    /\ sqlCall' = [op |-> "createMany", threw |-> FALSE, dataArr |-> dataArr,
                   rets |-> dataArr,
                   em |-> [k \in 1..Len(dataArr) |-> "create"] \o <<"persistAndFlush">>]

\* lines 56-59: em.find with { id: { $in: ids } }, then removeAndFlush of what was found
sql_deleteMany(ids) ==
    LET hit == { i \in (DOMAIN db) \cup (DOMAIN managed) : Includes(ids, i) }
    IN  /\ flushes < MaxFlushes
        /\ managed' = WithoutKeys(managed, hit)
        /\ db' = WithoutKeys(emFlush(managed', db), hit)
        /\ flushes' = flushes + 1
        /\ sqlCall' = [op |-> "deleteMany", threw |-> FALSE, ids |-> ids,
                       em |-> <<"find", "removeAndFlush">>]

----------------------------------------------------------------------------
\* Repository metadata (src/unnamed/part_003) and RepositoryFactory (src/unnamed/part_006)

\* the model classes of a program
ModelClasses == {"Product", "User", "Note"}

\* enum RepositoryType
RepositoryType == [SQL |-> "sql", REST |-> "rest", INMEMORY |-> "inmemory"]

\* a class no @Repository was applied to
NoMetadata == [none |-> TRUE]

\* @Repository(metadata) applied to class target, part_003 lines 19-27: SQL metadata
\* with a (non-empty) db is kept whole under "repository:config", of any other only
\* the type is kept, under "repository:type" (held here as a record of that one field)
Repository(metadata, target) ==
    /\ factoryCall.op = "none"                 \* decorators run when the classes are defined
    /\ declared[target] = NoMetadata
    /\ reflect' = [reflect EXCEPT ![target] =
                      IF /\ metadata.type = RepositoryType.SQL
                         /\ "db" \in DOMAIN metadata /\ metadata.db # ""
                      THEN WithKey(@, "repository:config", metadata)
                      ELSE WithKey(@, "repository:type", [type |-> metadata.type])]
    /\ declared' = [declared EXCEPT ![target] = metadata]
    /\ UNCHANGED factoryCall

\* getRepositoryType(model), imported by part_006 from "./decorators": the kind of the
\* metadata attached to the class, "undefined" when there is none
getRepositoryType(target) ==
    IF "repository:config" \in DOMAIN reflect[target]
    THEN reflect[target]["repository:config"].type
    ELSE IF "repository:type" \in DOMAIN reflect[target]
    THEN reflect[target]["repository:type"].type
    ELSE "undefined"

\* create that falls back to the in-memory store when it knows no type
RepositoryFactory_create_defaults(model) ==
    /\ factoryCall' =
          LET repoType == getRepositoryType(model)
          IN  [op |-> "create", model |-> model, threw |-> FALSE, error |-> "none",
               constructed |-> IF repoType = RepositoryType.SQL THEN "SqlRepository"
                               ELSE IF repoType = RepositoryType.REST THEN "RestRepository"
                               ELSE "InMemoryRepository"]
    /\ UNCHANGED <<reflect, declared>>

\* RepositoryFactory.create(model), part_006 lines 17-30
RepositoryFactory_create(model) ==
    /\ factoryCall' =
          LET repoType == getRepositoryType(model)
          IN  IF repoType = RepositoryType.SQL
              THEN [op |-> "create", model |-> model, threw |-> FALSE, error |-> "none",
                    constructed |-> "SqlRepository"]
              ELSE IF repoType = RepositoryType.REST
              THEN [op |-> "create", model |-> model, threw |-> FALSE, error |-> "none",
                    constructed |-> "RestRepository"]
              ELSE IF repoType = RepositoryType.INMEMORY
              THEN [op |-> "create", model |-> model, threw |-> FALSE, error |-> "none",
                    constructed |-> "InMemoryRepository"]
              ELSE [op |-> "create", model |-> model, threw |-> TRUE,
                    error |-> "Unknown or missing repository type for model " \o model,
                    constructed |-> "none"]
    /\ UNCHANGED <<reflect, declared>>

----------------------------------------------------------------------------
\* InMemoryRepository called without awaiting: create, update and delete are async
\* functions whose bodies contain no await (lines 77-105), so a call runs its whole body
\* before it returns its promise, and other calls can be issued before the caller's
\* continuation consumes that promise

\* logically parallel callers of one store
ParallelCallers == {1, 2}

\* no promise outstanding
NoPromise == [state |-> "none"]

\* the promise a call returned: already resolved with the call's result
ResolvedPromise(call, ret) == [state |-> "resolved", call |-> call, ret |-> ret,
                               after |-> store']

\* as if the body ran at the continuation on what the call had read at its issue, and
\* assigned the store it had computed then
asyncSettleEffect_writesBack(s, promise) == promise.after

\* lines 83, 96, 104: nothing of the body is left to run once the promise is handed out,
\* so the continuation finds the store as the calls issued meanwhile have left it
asyncSettleEffect(s, promise) == s

\* caller c issues repo.create(data) and goes on without awaiting it
async_create(c, data) ==
    /\ pending[c] = NoPromise
    /\ Len(issued) < MaxIssued
    /\ create(data)
    /\ pending' = [pending EXCEPT ![c] = ResolvedPromise([op |-> "create", data |-> data],
                                                          lastCall'.ret)]
    /\ issued' = Append(issued, [op |-> "create", data |-> data, by |-> c])

\* caller c issues repo.update(id, data) and goes on without awaiting it
async_update(c, id, data) ==
    /\ pending[c] = NoPromise
    /\ Len(issued) < MaxIssued
    /\ update(id, data)
    /\ pending' = [pending EXCEPT ![c] =
                      ResolvedPromise([op |-> "update", id |-> id, data |-> data],
                                      lastCall'.ret)]
    /\ issued' = Append(issued, [op |-> "update", id |-> id, data |-> data, by |-> c])

\* caller c issues repo.delete(id) and goes on without awaiting it
async_delete(c, id) ==
    /\ pending[c] = NoPromise
    /\ Len(issued) < MaxIssued
    /\ delete(id)
    /\ pending' = [pending EXCEPT ![c] = ResolvedPromise([op |-> "delete", id |-> id], Null)]
    /\ issued' = Append(issued, [op |-> "delete", id |-> id, by |-> c])

\* the continuation of caller c runs: it takes the result out of the promise
async_settle(c) ==
    /\ pending[c] # NoPromise
    /\ store' = asyncSettleEffect(store, pending[c])
    /\ pending' = [pending EXCEPT ![c] = NoPromise]
    /\ UNCHANGED <<transactionStack, uuidCount, lastCall, openBegins, lastTx, issued>>

RepoInit ==
    /\ store = <<>>
    /\ transactionStack = <<>>
    /\ uuidCount = 0
    /\ lastCall = [op |-> "none", threw |-> FALSE]
    /\ openBegins = <<>>
    /\ lastTx = "none"

SideInit ==
    /\ held = [arr |-> <<>>, isStore |-> FALSE]
    /\ requests = 0
    /\ restCall = [op |-> "none", threw |-> FALSE]
    /\ db = EmptyObj
    /\ managed = EmptyObj
    /\ flushes = 0
    /\ sqlCall = [op |-> "none", threw |-> FALSE]
    /\ reflect = [t \in ModelClasses |-> EmptyObj]
    /\ declared = [t \in ModelClasses |-> NoMetadata]
    /\ factoryCall = [op |-> "none", threw |-> FALSE]
    /\ pending = [c \in ParallelCallers |-> NoPromise]
    /\ issued = <<>>

Init ==
    /\ RepoInit
    /\ svc = [c \in ParallelCallers |-> IdleCall]
    /\ SideInit

----------------------------------------------------------------------------
\* Specification SpecTx: one caller issuing awaited mutations and transaction calls

TxCreateInputs == {[name |-> "Widget"]}
TxUpdateInputs == {[name |-> "Gadget"], [price |-> 50]}
TxCreateManyInputs == {<<[name |-> "Gadget"]>>}
TxUpdateManyInputs == { <<[id |-> i, data |-> [name |-> "Gadget"]]>> : i \in IdInputs }
TxDeleteManyInputs == { <<i, "p1">> : i \in IdInputs }

TxNext ==
    \/ UNCHANGED <<svc, sideVars>> /\ beginTransaction
    \/ UNCHANGED <<svc, sideVars>> /\ commitTransaction
    \/ UNCHANGED <<svc, sideVars>> /\ rollbackTransaction
    \/ UNCHANGED <<svc, sideVars>> /\ \E data \in TxCreateInputs : create(data)
    \/ UNCHANGED <<svc, sideVars>> /\ \E id \in IdInputs, data \in TxUpdateInputs : update(id, data)
    \/ UNCHANGED <<svc, sideVars>> /\ \E id \in IdInputs : delete(id)
    \/ UNCHANGED <<svc, sideVars>> /\ \E dataArr \in TxCreateManyInputs : createMany(dataArr)
    \/ UNCHANGED <<svc, sideVars>> /\ \E updates \in TxUpdateManyInputs : updateMany(updates)
    \/ UNCHANGED <<svc, sideVars>> /\ \E ids \in TxDeleteManyInputs : deleteMany(ids)
    \/ UNCHANGED <<svc, sideVars>> /\ findAll

SpecTx == Init /\ [][TxNext]_vars

----------------------------------------------------------------------------
\* Specification SpecCrud: one caller issuing awaited creates, updates, deletes, their
\* bulk variants and findById; partials may carry an id, also one already in the store

CrudCreateInputs ==
    {[name |-> "Widget"], [name |-> "Gadget", price |-> 100]}
        \cup { [id |-> i, name |-> "Widget"] : i \in IdInputs }
CrudUpdateInputs == {[name |-> "Gadget"], [price |-> 50], [id |-> "p1", name |-> "Widget"]}
CrudCreateManyInputs == {<<[name |-> "Widget"], [id |-> "p1", price |-> 100]>>}
CrudUpdateManyInputs ==
    { <<[id |-> i, data |-> [name |-> "Gadget"]], [id |-> j, data |-> [price |-> 50]]>> :
        i, j \in IdInputs }
      \cup { <<[id |-> i, data |-> [id |-> "p1", name |-> "Widget"]],
               [id |-> i, data |-> [price |-> 50]]>> : i \in IdInputs }
CrudDeleteManyInputs == ListsOver(IdInputs)

CrudNext ==
    \/ UNCHANGED <<svc, sideVars>> /\ \E data \in CrudCreateInputs : create(data)
    \/ UNCHANGED <<svc, sideVars>> /\ \E id \in IdInputs, data \in CrudUpdateInputs : update(id, data)
    \/ UNCHANGED <<svc, sideVars>> /\ \E id \in IdInputs : delete(id)
    \/ UNCHANGED <<svc, sideVars>> /\ \E dataArr \in CrudCreateManyInputs : createMany(dataArr)
    \/ UNCHANGED <<svc, sideVars>> /\ \E updates \in CrudUpdateManyInputs : updateMany(updates)
    \/ UNCHANGED <<svc, sideVars>> /\ \E ids \in CrudDeleteManyInputs : deleteMany(ids)
    \/ UNCHANGED <<svc, sideVars>> /\ \E id \in IdInputs : findById(id)

SpecCrud == Init /\ [][CrudNext]_vars

----------------------------------------------------------------------------
\* Specification SpecFind: one caller filling the store and querying it

FindCreateInputs ==
    {[name |-> "Widget", price |-> 100], [name |-> "Gadget", price |-> 100],
     [name |-> "Widget"], [id |-> "p1", name |-> "Gadget", price |-> 50]}

\* filters: absent, empty, one entry, two entries, an entry on the id
FilterInputs ==
    {Undefined, EmptyObj, [name |-> "Widget"], [price |-> 100],
     [name |-> "Gadget", price |-> 100], [id |-> "p1"]}

\* options: absent, empty, ordering, offset / limit including 0
OptionInputs ==
    {Undefined, EmptyObj}
        \cup { [orderBy |-> [key |-> "price", dir |-> d]] : d \in {"ASC", "DESC"} }
        \cup { [offset |-> o, limit |-> l] : o \in 0..1, l \in 0..1 }
        \cup { [orderBy |-> [key |-> "price", dir |-> "DESC"], offset |-> 1, limit |-> 1] }

FindNext ==
    \/ UNCHANGED <<svc, sideVars>> /\ \E data \in FindCreateInputs : create(data)
    \/ UNCHANGED <<svc, sideVars>> /\ \E filters \in FilterInputs \ {Undefined} : findOne(filters)
    \/ UNCHANGED <<svc, sideVars>> /\ findAll
    \/ UNCHANGED <<svc, sideVars>> /\ \E filters \in FilterInputs, options \in OptionInputs : find(filters, options)

SpecFind == Init /\ [][FindNext]_vars

----------------------------------------------------------------------------
\* Specification SpecService: callers of one BaseService<Product> bound to the store

\* data that passes Product's rules, data with a negative price, data lacking fields
ValidProduct ==
    [id |-> "uuid-0", name |-> "Widget", price |-> 100, tax |-> 21, totalPrice |-> 121]
ServiceDataInputs ==
    {ValidProduct,
     [id |-> "uuid-0", name |-> "Gadget", price |-> 0 - 1, tax |-> 0, totalPrice |-> 0],
     [name |-> "Gadget", price |-> 100]}
ServiceIdInputs == {"uuid-0", "p1"}
HookInputs == {"default", "override"}

ServiceNext ==
    \/ UNCHANGED sideVars /\ \E c \in Callers, data \in ServiceDataInputs, hooks \in HookInputs :
          BaseService_call(c, "create", "", data, hooks)
    \/ UNCHANGED sideVars /\ \E c \in Callers, id \in ServiceIdInputs, data \in ServiceDataInputs,
          hooks \in HookInputs :
          BaseService_call(c, "update", id, data, hooks)
    \/ UNCHANGED sideVars /\ \E c \in Callers, id \in ServiceIdInputs, hooks \in HookInputs :
          BaseService_call(c, "delete", id, EmptyObj, hooks)
    \/ UNCHANGED sideVars /\ \E c \in Callers, overrideRaises \in BOOLEAN :
          BaseService_beforeSettled(c, overrideRaises)
    \/ UNCHANGED sideVars /\ \E c \in Callers : BaseService_repoSettled(c)
    \/ UNCHANGED sideVars /\ \E c \in Callers, overrideRaises \in BOOLEAN :
          BaseService_afterSettled(c, overrideRaises)

SpecService == Init /\ [][ServiceNext]_vars

----------------------------------------------------------------------------
\* Specification SpecRest: one caller of a RestRepository<User>, each call awaited; the
\* endpoint answers as it likes

RestUser == [id |-> "u1", name |-> "Alice"]
RestIdInputs == {"u1", "u2"}
RestDataInputs == {[name |-> "Alice"]}
RestFilterInputs == {[name |-> "Alice"], [name |-> "Bob"]}
RestOptionInputs == {Undefined, [limit |-> 0, offset |-> 1]}

\* a failed request: a status outside 2xx, or no answer at all
FailureResponses ==
    {[kind |-> "response", status |-> 404], [kind |-> "response", status |-> 500],
     [kind |-> "transportError"]}

\* answers to a request for one entity
EntityResponses ==
    {[kind |-> "response", status |-> 200, data |-> RestUser],
     [kind |-> "response", status |-> 200, data |-> Null]} \cup FailureResponses

\* answers to a request for a collection
ListResponses ==
    {[kind |-> "response", status |-> 200, rows |-> <<>>],
     [kind |-> "response", status |-> 200, rows |-> <<RestUser>>]} \cup FailureResponses

\* answers to a request that returns nothing
VoidResponses == {[kind |-> "response", status |-> 204]} \cup FailureResponses

RestNext ==
    \/ UNCHANGED outsideRest /\ \E data \in RestDataInputs, resp \in EntityResponses :
          rest_create(data, resp)
    \/ UNCHANGED outsideRest /\ \E id \in RestIdInputs, data \in RestDataInputs, resp \in EntityResponses :
          rest_update(id, data, resp)
    \/ UNCHANGED outsideRest /\ \E id \in RestIdInputs, resp \in VoidResponses : rest_delete(id, resp)
    \/ UNCHANGED outsideRest /\ \E id \in RestIdInputs, resp \in EntityResponses : rest_findById(id, resp)
    \/ UNCHANGED outsideRest /\ \E filters \in RestFilterInputs, resp \in ListResponses :
          rest_findOne(filters, resp)
    \/ UNCHANGED outsideRest /\ \E resp \in ListResponses : rest_findAll(resp)
    \/ UNCHANGED outsideRest /\ \E filters \in RestFilterInputs \cup {Undefined},
                           options \in RestOptionInputs, resp \in ListResponses :
          rest_find(filters, options, resp)
    \/ UNCHANGED outsideRest /\ \E resp \in ListResponses : rest_createMany(<<[name |-> "Alice"]>>, resp)
    \/ UNCHANGED outsideRest /\ \E id \in RestIdInputs, resp \in ListResponses :
          rest_updateMany(<<[id |-> id, data |-> [name |-> "Alice"]]>>, resp)
    \/ UNCHANGED outsideRest /\ \E id \in RestIdInputs, resp \in VoidResponses :
          rest_deleteMany(<<id>>, resp)
    \/ UNCHANGED outsideRest /\ rest_beginTransaction
    \/ UNCHANGED outsideRest /\ rest_commitTransaction
    \/ UNCHANGED outsideRest /\ rest_rollbackTransaction

SpecRest == Init /\ [][RestNext]_vars

----------------------------------------------------------------------------
\* Specification SpecCopy: one caller filling the store, opening and rolling back
\* transactions, keeping what findAll() returned and changing that array once, by a
\* push, a pop or a reverse, before it goes on

CopyCreateInputs == {[name |-> "Widget"], [id |-> "p1", name |-> "Gadget"]}

CopyNext ==
    \/ UNCHANGED <<svc, sideVars>> /\ \E data \in CopyCreateInputs : create(data)
    \/ UNCHANGED <<svc, outsideHeld>> /\ \E id \in IdInputs : reassignsStore(delete(id))
    \/ UNCHANGED <<svc, sideVars>> /\ transactionStack = <<>> /\ beginTransaction
    \/ UNCHANGED <<svc, outsideHeld>> /\ reassignsStore(rollbackTransaction)
    \/ UNCHANGED <<svc, outsideHeld>> /\ findAllKept
    \/ UNCHANGED <<svc, outsideHeld>> /\ \E newArr \in CallerMutations(held.arr) :
          lastCall.op = "findAll" /\ held.arr = lastCall.rets /\ callerMutates(newArr)

SpecCopy == Init /\ [][CopyNext]_vars

----------------------------------------------------------------------------
\* Specification SpecSql: one caller of a SqlRepository, each call awaited.  Entities are
\* created with their primary key, one that is not yet in the table, and no partial
\* of an update changes the primary key.

SqlIdInputs == {"e1", "e2"}
SqlCreateInputs == { [id |-> i, name |-> "Widget"] : i \in SqlIdInputs }
SqlUpdateInputs == {[name |-> "Gadget"], [price |-> 50]}
SqlUpdateManyInputs ==
    { <<[id |-> i, data |-> [name |-> "Gadget"]], [id |-> j, data |-> [price |-> 50]]>> :
        i, j \in SqlIdInputs }
SqlFilterInputs == {[name |-> "Widget"], [name |-> "Gadget"]}

\* the primary keys in use
sqlIds == (DOMAIN db) \cup (DOMAIN managed)

SqlNext ==
    \/ UNCHANGED outsideSql /\ \E data \in SqlCreateInputs :
          data["id"] \notin sqlIds /\ sql_create(data)
    \/ UNCHANGED outsideSql /\ \E id \in SqlIdInputs, data \in SqlUpdateInputs : sql_update(id, data)
    \/ UNCHANGED outsideSql /\ \E id \in SqlIdInputs : sql_delete(id)
    \/ UNCHANGED outsideSql /\ \E id \in SqlIdInputs : sql_findById(id)
    \/ UNCHANGED outsideSql /\ \E filters \in SqlFilterInputs : sql_findOne(filters)
    \/ UNCHANGED outsideSql /\ \E updates \in SqlUpdateManyInputs : sql_updateMany(updates)
    \/ UNCHANGED outsideSql /\ sqlIds = {} /\ sql_createMany(<<[id |-> "e1", name |-> "Widget"],
                                                                [id |-> "e2", name |-> "Gadget"]>>)
    \/ UNCHANGED outsideSql /\ \E id \in SqlIdInputs : sql_deleteMany(<<id, "e2">>)

SpecSql == Init /\ [][SqlNext]_vars

----------------------------------------------------------------------------
\* Specification SpecFactory: classes are defined, some of them decorated, and stores
\* are then asked for

MetadataInputs ==
    {[type |-> "sql", db |-> "main"], [type |-> "sql"], [type |-> "rest"],
     [type |-> "inmemory"]}

FactoryNext ==
    \/ UNCHANGED outsideFactory /\ \E metadata \in MetadataInputs, target \in ModelClasses :
          Repository(metadata, target)
    \/ UNCHANGED outsideFactory /\ \E model \in ModelClasses : RepositoryFactory_create(model)

SpecFactory == Init /\ [][FactoryNext]_vars

----------------------------------------------------------------------------
\* Specification SpecProduct: one caller of a ProductService on an in-memory store,
\* each create awaited before the next

\* what the tests pass (a name and a price), and the same with an id of UUID shape
ProductDataInputs ==
    {[name |-> "Widget", price |-> 100], [name |-> "Widget", price |-> 60],
     [name |-> "Gadget", price |-> 50],
     [id |-> "uuid-0", name |-> "Widget", price |-> 100],
     [id |-> "uuid-2", name |-> "Widget", price |-> 60],
     [id |-> "uuid-2", name |-> "Gadget", price |-> 50, tax |-> 7]}

ProductNext ==
    \/ UNCHANGED sideVars /\ \E c \in Callers, data \in ProductDataInputs :
          ProductService_create(c, data)
    \/ UNCHANGED sideVars /\ \E c \in Callers : ProductService_validated(c)
    \/ UNCHANGED sideVars /\ \E c \in Callers : ProductService_findOneSettled(c)
    \/ UNCHANGED sideVars /\ \E c \in Callers : BaseService_beforeSettled(c, FALSE)
    \/ UNCHANGED sideVars /\ \E c \in Callers : BaseService_repoSettled(c)
    \/ UNCHANGED sideVars /\ \E c \in Callers : BaseService_afterSettled(c, FALSE)

SpecProduct == Init /\ [][ProductNext]_vars

----------------------------------------------------------------------------
\* Specification SpecRead: one caller filling the store, opening transactions and
\* reading with each of the four read operations

\* filters: absent, on a field two records share, on the id
ReadFilterInputs == {Undefined, [price |-> 100], [id |-> "p1"]}

\* options: absent, either ordering, an ordering cut by offset and limit
ReadOptionInputs ==
    {Undefined}
        \cup { [orderBy |-> [key |-> "price", dir |-> d]] : d \in {"ASC", "DESC"} }
        \cup { [orderBy |-> [key |-> "price", dir |-> "DESC"], offset |-> 1, limit |-> 1] }

ReadNext ==
    \/ UNCHANGED <<svc, sideVars>> /\ \E data \in FindCreateInputs : create(data)
    \/ UNCHANGED <<svc, sideVars>> /\ beginTransaction
    \/ UNCHANGED <<svc, sideVars>> /\ \E id \in IdInputs : findById(id)
    \/ UNCHANGED <<svc, sideVars>> /\ \E filters \in ReadFilterInputs \ {Undefined} : findOne(filters)
    \/ UNCHANGED <<svc, sideVars>> /\ findAll
    \/ UNCHANGED <<svc, sideVars>> /\ \E filters \in ReadFilterInputs, options \in ReadOptionInputs :
          find(filters, options)

SpecRead == Init /\ [][ReadNext]_vars

----------------------------------------------------------------------------
\* Specification SpecAsync: two callers issuing creates, updates and deletes on one
\* in-memory store without awaiting each other

AsyncCreateInputs == {[name |-> "Widget"], [id |-> "p1", name |-> "Gadget"]}
AsyncUpdateInputs == {[name |-> "Gadget"], [price |-> 50]}

AsyncNext ==
    \/ UNCHANGED outsideAsync /\ \E c \in ParallelCallers, data \in AsyncCreateInputs :
          async_create(c, data)
    \/ UNCHANGED outsideAsync /\ \E c \in ParallelCallers, id \in IdInputs,
                                    data \in AsyncUpdateInputs : async_update(c, id, data)
    \/ UNCHANGED outsideAsync /\ \E c \in ParallelCallers, id \in IdInputs : async_delete(c, id)
    \/ UNCHANGED outsideAsync /\ \E c \in ParallelCallers : async_settle(c)

SpecAsync == Init /\ [][AsyncNext]_vars

----------------------------------------------------------------------------
\* Specification SpecRace: two callers of one ProductService on one in-memory store,
\* neither awaiting the other's create

\* the data carry an id of UUID shape, or none as in the tests
RaceDataInputs ==
    {[id |-> "uuid-0", name |-> "Widget", price |-> 100],
     [id |-> "uuid-2", name |-> "Widget", price |-> 60],
     [id |-> "uuid-1", name |-> "Gadget", price |-> 50],
     [name |-> "Widget", price |-> 100]}

RaceNext ==
    \/ UNCHANGED sideVars /\ \E c \in ParallelCallers, data \in RaceDataInputs :
          ProductService_create(c, data)
    \/ UNCHANGED sideVars /\ \E c \in ParallelCallers : ProductService_validated(c)
    \/ UNCHANGED sideVars /\ \E c \in ParallelCallers : ProductService_findOneSettled(c)
    \/ UNCHANGED sideVars /\ \E c \in ParallelCallers : BaseService_beforeSettled(c, FALSE)
    \/ UNCHANGED sideVars /\ \E c \in ParallelCallers : BaseService_repoSettled(c)
    \/ UNCHANGED sideVars /\ \E c \in ParallelCallers : BaseService_afterSettled(c, FALSE)

SpecRace == Init /\ [][RaceNext]_vars

----------------------------------------------------------------------------
\* Transactions of the in-memory store

\* C1: a rollback whose latest preceding transaction call is its begin (only creates,
\* updates and deletes in between) makes findAll() return exactly what findAll()
\* returned at that begin: same records, same fields, same order.
C1_RollbackRestoresPreTransactionState ==
    [][(lastCall'.op = "rollbackTransaction" /\ lastTx = "begin")
          => findAllResult(store') = openBegins[Len(openBegins)]]_vars

\* a rollback right after begin + mutations has replaced a different live sequence
C1_Witness ==
    /\ lastCall.op = "rollbackTransaction"
    /\ lastCall.prevTx = "begin"
    /\ lastCall.replaced # store
    /\ store # <<>>

\* C2: at any nesting depth a rollback restores the store as of the most recent begin
\* that is neither committed nor rolled back (commit closes the innermost open begin),
\* and closes that begin.
C2_NestedRollbackRestoresInnermostOpenBegin ==
    [][(lastCall'.op = "rollbackTransaction" /\ openBegins # <<>>)
          => /\ store' = openBegins[Len(openBegins)]
             /\ Len(transactionStack') = Len(openBegins')
             /\ Len(openBegins') = Len(openBegins) - 1]_vars

\* begin(outer), begin(inner), mutations, commit(inner), rollback(outer): the rollback
\* found exactly one open begin, right after a commit, and undid mutations
C2_Witness ==
    /\ lastCall.op = "rollbackTransaction"
    /\ lastCall.prevTx = "commit"
    /\ lastCall.depth = 1
    /\ lastCall.replaced # store

\* C3: commit drops exactly the top snapshot and keeps the live sequence; a rollback on
\* an empty stack raises nothing and changes neither the live sequence nor the stack.
C3_CommitPopsOnlyRollbackOnEmptyIsNoOp ==
    [][/\ lastCall'.op = "commitTransaction"
          => /\ store' = store
             /\ Len(transactionStack') =
                    (IF transactionStack = <<>> THEN 0 ELSE Len(transactionStack) - 1)
             /\ \A i \in 1..Len(transactionStack') :
                    transactionStack'[i] = transactionStack[i]
       /\ (lastCall'.op = "rollbackTransaction" /\ transactionStack = <<>>)
          => /\ ~lastCall'.threw
             /\ store' = store
             /\ transactionStack' = <<>>]_vars

\* a rollback on the empty stack of a non-empty store, after an earlier commit
C3_Witness ==
    /\ lastCall.op = "rollbackTransaction"
    /\ lastCall.depth = 0
    /\ lastCall.prevTx = "commit"
    /\ store # <<>>

----------------------------------------------------------------------------
\* Record Service: hooks around the store call

\* C5: when the before-hook of a service create, update or delete rejects (the default
\* validation, or an overriding hook), the caller gets the error, neither the store's
\* method nor the after-hook is invoked, and the store is left as it was.
C5_BeforeHookFailureStopsTheCall ==
    [][\A c \in Callers :
          svc'[c].raised = "before"
             => /\ svc'[c].pc = "threw"
                /\ svc'[c].error \in {"ValidationFailed", "BeforeHookError"}
                /\ \A n \in 1..Len(svc'[c].events) :
                      svc'[c].events[n].name = BeforeHook(svc'[c].op)
                /\ svc[c].raised # "before"
                      => /\ store' = store
                         /\ transactionStack' = transactionStack
                         /\ lastCall' = lastCall]_vars

\* the default validation rejected a create with a negative price on a store that
\* holds a record
C5_Witness ==
    /\ svc[1].raised = "before"
    /\ svc[1].op = "create"
    /\ svc[1].error = "ValidationFailed"
    /\ "price" \in DOMAIN svc[1].data
    /\ svc[1].data["price"] < 0
    /\ store # <<>>

\* C6: a service create, update or delete in which nothing fails consists of exactly
\* the before-hook, the store's method and the after-hook, once each and in that order;
\* the after-hook gets the store's result, also when update returned null.
C6_HooksWrapTheStoreCall ==
    \A c \in Callers :
        svc[c].pc = "returned"
           => LET k == svc[c] IN
              /\ Len(k.events) = 3
              /\ k.events[1].name = BeforeHook(k.op)
              /\ k.events[2].name = RepoMethod(k.op)
              /\ k.events[3].name = AfterHook(k.op)
              /\ lastCall.op = k.op
              /\ k.op \in {"create", "update"} => k.events[3].arg = lastCall.ret
              /\ k.op = "delete" => k.events[3].id = lastCall.id

\* an update of an unknown id returned, and afterUpdate had been given null
C6_Witness ==
    /\ svc[1].pc = "returned"
    /\ svc[1].op = "update"
    /\ svc[1].ret = Null
    /\ svc[1].events[3] = [name |-> "afterUpdate", id |-> svc[1].id, arg |-> Null]

\* C7: when the after-hook rejects, the caller gets the error, and what the store's
\* method did stays done: the step changes neither the store nor its snapshots.
C7_AfterHookFailureKeepsTheMutation ==
    [][\A c \in Callers :
          (svc'[c].raised = "after" /\ svc[c].raised # "after")
             => LET k == svc'[c] IN
                /\ k.pc = "threw"
                /\ k.error = "AfterHookError"
                /\ k.events[2].name = RepoMethod(k.op)
                /\ store' = store
                /\ transactionStack' = transactionStack
                /\ k.op = "create" => \E i \in 1..Len(store') : store'[i] = k.ret
                /\ (k.op = "update" /\ k.ret # Null)
                      => \E i \in 1..Len(store') : store'[i] = k.ret
                /\ k.op = "delete" => k.id \notin IdsOf(store')]_vars

\* afterCreate rejected and the created record is in the store
C7_Witness ==
    /\ svc[1].raised = "after"
    /\ svc[1].op = "create"
    /\ svc[1].pc = "threw"
    /\ store # <<>>

----------------------------------------------------------------------------
\* Create, update, delete and queries of the in-memory store

\* C4: right after r = create(p), findById(r.id) returns a record equal to r, for every
\* partial p, with or without an id, also an id already in the store; an id p carries is
\* kept, otherwise one is assigned.
C4_CreateThenFindByIdReturnsCreated ==
    lastCall.op = "create"
        => /\ "id" \in DOMAIN lastCall.ret
           /\ ("id" \in DOMAIN lastCall.data => lastCall.ret["id"] = lastCall.data["id"])
           /\ findByIdResult(store, lastCall.ret["id"]) = lastCall.ret

\* the records of s whose id is not in ids, in the order of s
RECURSIVE Without(_, _)
Without(s, ids) ==
    IF s = <<>> THEN <<>>
    ELSE (IF Head(s)["id"] \in ids THEN <<>> ELSE <<Head(s)>>) \o Without(Tail(s), ids)

\* C8: update(id, partial) of an unknown id returns null and changes nothing; of a known
\* id it returns the record with the partial's fields overlaid and the others kept,
\* keeps the number of records and leaves every other record as it was.
C8_UpdateMergesOrReturnsNull ==
    [][lastCall'.op = "update"
          => LET id  == lastCall'.id
                 p   == lastCall'.data
                 ret == lastCall'.ret
             IN  /\ ~lastCall'.threw
                 /\ id \notin IdsOf(store) => (ret = Null /\ store' = store)
                 /\ id \in IdsOf(store)
                      => /\ ret # Null
                         /\ Len(store') = Len(store)
                         /\ \E i \in 1..Len(store) :
                               /\ store[i]["id"] = id
                               /\ store'[i] = ret
                               /\ DOMAIN ret = (DOMAIN store[i]) \cup (DOMAIN p)
                               /\ \A f \in DOMAIN p : ret[f] = p[f]
                               /\ \A f \in (DOMAIN store[i]) \ (DOMAIN p) : ret[f] = store[i][f]
                               /\ \A j \in 1..Len(store) : j # i => store'[j] = store[j]]_vars

\* an update overlaid the name of a record that keeps its price, next to another record
C8_Witness ==
    /\ lastCall.op = "update"
    /\ lastCall.ret # Null
    /\ DOMAIN lastCall.data = {"name"}
    /\ "price" \in DOMAIN lastCall.ret
    /\ Len(store) = 2

\* C9: delete(id) removes the records with that id and keeps the others in order; an
\* unknown id changes nothing and raises nothing; a second delete(id) changes nothing
\* more; deleteMany(ids) removes exactly the records whose id is in ids.
C9_DeleteRemovesAndIsIdempotent ==
    [][/\ lastCall'.op = "delete"
          => /\ ~lastCall'.threw
             /\ store' = Without(store, {lastCall'.id})
             /\ (lastCall'.id \notin IdsOf(store) => store' = store)
             /\ deleteEffect(store', lastCall'.id) = store'
       /\ lastCall'.op = "deleteMany"
          => /\ ~lastCall'.threw
             /\ store' = Without(store, { lastCall'.ids[i] : i \in 1..Len(lastCall'.ids) })]_vars

\* a delete took one record out of two
C9_Witness ==
    /\ lastCall.op = "delete"
    /\ Len(lastCall.replaced) = 2
    /\ Len(store) = 1

\* record r satisfies filter F: every entry of F equals r's field
Satisfies(r, F) == \A k \in DOMAIN F : k \in DOMAIN r /\ r[k] = F[k]

\* the records of s satisfying F, in the order of s
RECURSIVE Matching(_, _)
Matching(s, F) ==
    IF s = <<>> THEN <<>>
    ELSE (IF Satisfies(Head(s), F) THEN <<Head(s)>> ELSE <<>>) \o Matching(Tail(s), F)

\* C10: without options, find(F) returns exactly the records satisfying every entry of F,
\* in store order; the empty and the absent filter return all records; findOne(F)
\* returns the first such record, or null when there is none.
C10_FindReturnsExactlyTheMatches ==
    /\ (lastCall.op = "find" /\ lastCall.options \in {Undefined, EmptyObj})
          => lastCall.rets = (IF lastCall.filters \in {Undefined, EmptyObj} THEN store
                              ELSE Matching(store, lastCall.filters))
    /\ lastCall.op = "findOne"
          => lastCall.ret = (IF Matching(store, lastCall.filters) = <<>> THEN Null
                             ELSE Head(Matching(store, lastCall.filters)))

\* a two-entry filter selected some but not all records
C10_Witness ==
    /\ lastCall.op = "find"
    /\ lastCall.options = Undefined
    /\ lastCall.filters # Undefined
    /\ DOMAIN lastCall.filters = {"name", "price"}
    /\ Len(lastCall.rets) = 1
    /\ Len(store) = 2

\* C11: find(F, {orderBy, offset: o, limit: l}) with o, l >= 0 (0 included) returns the
\* slice [o, o+l) of a full result of find(F, {orderBy}): filter, then ordering, then
\* offset, then limit.
C11_FindSlicesTheOrderedMatches ==
    (/\ lastCall.op = "find"
     /\ lastCall.options # Undefined
     /\ {"offset", "limit"} \subseteq DOMAIN lastCall.options)
        => LET o == lastCall.options["offset"]
               l == lastCall.options["limit"]
               orderOnly == IF "orderBy" \in DOMAIN lastCall.options
                            THEN [orderBy |-> lastCall.options["orderBy"]]
                            ELSE EmptyObj
           IN  \E full \in findResults(store, lastCall.filters, orderOnly) :
                  lastCall.rets = SubSeq(full, o + 1, IF o + l < Len(full) THEN o + l ELSE Len(full))

\* record r with the fields of partial p laid over it
Merged(r, p) == [f \in (DOMAIN r) \cup (DOMAIN p) |-> IF f \in DOMAIN p THEN p[f] ELSE r[f]]

\* s after the elements of U have been applied one after the other, each to the first
\* record that has its id at that moment, elements without such a record skipped
RECURSIVE AppliedInOrder(_, _)
AppliedInOrder(s, U) ==
    IF U = <<>> THEN s
    ELSE LET hits == { j \in 1..Len(s) : s[j]["id"] = U[1].id }
             s1   == IF hits = {} THEN s
                     ELSE LET j == CHOOSE h \in hits : \A g \in hits : h <= g
                          IN  [s EXCEPT ![j] = Merged(s[j], U[1].data)]
         IN  AppliedInOrder(s1, Tail(U))

\* C14: updateMany(updates) returns a list as long as updates, with null at i exactly
\* when no record has the id updates[i].id at the moment element i is applied; an element
\* that is not found does not keep the others from being applied; elements are applied
\* in list order, a later one for the same id on top of an earlier one; records not
\* named in the list are unchanged.
C14_UpdateManyAppliesEachInOrder ==
    [][lastCall'.op = "updateMany"
          => LET U == lastCall'.updates
                 R == lastCall'.rets
                 before(i) == AppliedInOrder(store, SubSeq(U, 1, i - 1))
                 named == { U[i].id : i \in 1..Len(U) }
             IN  /\ Len(R) = Len(U)
                 /\ \A i \in 1..Len(U) :
                       /\ R[i] = Null <=> U[i].id \notin IdsOf(before(i))
                       /\ R[i] # Null
                            => \E j \in 1..Len(store) :
                                  /\ before(i)[j]["id"] = U[i].id
                                  /\ R[i] = Merged(before(i)[j], U[i].data)
                                  /\ before(i + 1)[j] = R[i]
                 /\ store' = AppliedInOrder(store, U)
                 /\ Len(store') = Len(store)
                 /\ \A j \in 1..Len(store) :
                       store[j]["id"] \notin named => store'[j] = store[j]]_vars

\* an element that was not found was followed by one that was applied
C14_Witness ==
    /\ lastCall.op = "updateMany"
    /\ Len(lastCall.rets) = 2
    /\ lastCall.rets[1] = Null
    /\ lastCall.rets[2] # Null
    /\ Len(store) = 2

----------------------------------------------------------------------------
\* The remote store

\* the endpoint's answer says that the record addressed does not exist
NotFoundAnswer(resp) ==
    /\ resp.kind = "response"
    /\ \/ resp.status = 404
       \/ resp.status = 200 /\ "data" \in DOMAIN resp /\ resp.data = Null
       \/ resp.status = 200 /\ "rows" \in DOMAIN resp /\ resp.rows = <<>>

\* C12: findById, findOne and update addressed to a record that does not exist complete
\* with a null result and raise no error: on the in-memory store, and on the remote
\* store also when the endpoint answers with a status outside 2xx, and on the relational
\* store.
C12_NotFoundIsNullNeverAnError ==
    /\ (lastCall.op \in {"findById", "update"} /\ lastCall.id \notin IdsOf(store))
          => (lastCall.ret = Null /\ ~lastCall.threw)
    /\ (lastCall.op = "findOne" /\ Matching(store, lastCall.filters) = <<>>)
          => (lastCall.ret = Null /\ ~lastCall.threw)
    /\ (restCall.op \in {"findById", "findOne", "update"} /\ NotFoundAnswer(restCall.resp))
          => (restCall.ret = Null /\ ~restCall.threw)
    /\ (sqlCall.op \in {"findById", "update"} /\ sqlCall.id \notin DOMAIN db)
          => (sqlCall.ret = Null /\ ~sqlCall.threw)
    /\ (sqlCall.op = "findOne" /\ \A i \in DOMAIN db : ~Satisfies(db[i], sqlCall.filters))
          => (sqlCall.ret = Null /\ ~sqlCall.threw)

RestTxOps == {"beginTransaction", "commitTransaction", "rollbackTransaction"}

\* C15: on the remote store, beginTransaction, commitTransaction and rollbackTransaction
\* each fail with the unsupported-operation error, whatever calls came before, and
\* issue no HTTP request.
C15_RemoteTransactionsAreUnsupported ==
    [][restCall'.op \in RestTxOps
          => /\ restCall'.threw
             /\ restCall'.error = "Operation not supported."
             /\ restCall'.requests = <<>>
             /\ requests' = requests]_vars

\* a rollback failed after two requests had been issued
C15_Witness ==
    /\ restCall.op = "rollbackTransaction"
    /\ restCall.threw
    /\ requests = 2

\* the method and the path of the operation table
TableMethod(op) ==
    IF op \in {"create", "createMany"} THEN "POST"
    ELSE IF op \in {"update", "updateMany"} THEN "PUT"
    ELSE IF op \in {"delete", "deleteMany"} THEN "DELETE"
    ELSE "GET"
TablePath(op, req) ==
    IF op \in {"update", "delete", "findById"} THEN "/" \o req.id
    ELSE IF op \in {"createMany", "updateMany", "deleteMany"} THEN "/bulk"
    ELSE ""

\* C16: every create, update, delete, findById, findOne, findAll, find, createMany,
\* updateMany and deleteMany on the remote store issues exactly one HTTP request, with
\* the method and path of the operation table; when the request fails (status outside
\* 2xx, or transport error) the failure reaches the caller and nothing is sent again.
C16_OneRequestPerCallNoRetry ==
    [][(restCall'.op \notin RestTxOps /\ restCall'.op # "none" /\ requests' # requests)
          => /\ requests' = requests + 1
             /\ Len(restCall'.requests) = 1
             /\ restCall'.requests[1].method = TableMethod(restCall'.op)
             /\ restCall'.requests[1].url =
                   "https://api.example.com/users" \o TablePath(restCall'.op, restCall'.requests[1])
             /\ (restCall'.resp.kind = "transportError" => restCall'.threw)
             /\ (restCall'.resp.kind = "response"
                   => (restCall'.threw <=> restCall'.resp.status \notin 200..299))]_vars

\* an update was answered 500 and threw, as the second request of the run
C16_Witness ==
    /\ restCall.op = "update"
    /\ restCall.resp.kind = "response"
    /\ restCall.resp.status = 500
    /\ restCall.threw
    /\ requests = 2

----------------------------------------------------------------------------
\* Copies handed out by the in-memory store

\* C13: after s = findAll(), appending to s, removing from s or reordering s changes
\* neither the store's records nor any saved transaction snapshot, so findAll() still
\* returns the same records in the same order.
C13_FindAllReturnsACopy ==
    [][(held'.arr # held.arr /\ lastCall' = lastCall)
          => /\ store' = store
             /\ transactionStack' = transactionStack
             /\ findAllResult(store') = findAllResult(store)]_vars

\* the caller changed the array it got from findAll() on a store of two records with a
\* transaction open, and no repository call came after
C13_Witness ==
    /\ lastCall.op = "findAll"
    /\ Len(lastCall.rets) = 2
    /\ held.arr # lastCall.rets
    /\ store = lastCall.rets
    /\ transactionStack # <<>>

----------------------------------------------------------------------------
\* The relational store

\* C17: create, update of an existing id and delete of an existing id hand the change to
\* the EntityManager and flush it before they return (the flush is their last call), so
\* the table holds the change and a findById on the same EntityManager sees it; update
\* or delete of an unknown id flushes nothing and changes nothing.
C17_RelationalWritesAreFlushedBeforeReturn ==
    [][sqlCall'.op \in {"create", "update", "delete"}
          => LET c  == sqlCall'
                 id == sqlCall'.id
             IN  /\ c.op = "create"
                      => /\ flushes' = flushes + 1
                         /\ c.em[Len(c.em)] = "persistAndFlush"
                         /\ id \in DOMAIN db' /\ db'[id] = c.ret
                         /\ emFindOne(managed', db', id) = c.ret
                 /\ (c.op = "update" /\ id \in DOMAIN db)
                      => /\ flushes' = flushes + 1
                         /\ c.em[Len(c.em)] = "persistAndFlush"
                         /\ c.ret # Null
                         /\ \A f \in DOMAIN c.data : c.ret[f] = c.data[f]
                         /\ \A f \in (DOMAIN db[id]) \ (DOMAIN c.data) : c.ret[f] = db[id][f]
                         /\ db'[id] = c.ret
                         /\ emFindOne(managed', db', id) = c.ret
                 /\ (c.op = "delete" /\ id \in DOMAIN db)
                      => /\ flushes' = flushes + 1
                         /\ c.em[Len(c.em)] = "removeAndFlush"
                         /\ id \notin DOMAIN db'
                         /\ emFindOne(managed', db', id) = Null
                 /\ (c.op \in {"update", "delete"} /\ id \notin DOMAIN db)
                      => /\ flushes' = flushes
                         /\ db' = db
                         /\ managed' = managed
                         /\ (c.op = "update" => c.ret = Null)]_vars

\* an update of a row in the table was flushed, as the second flush of the run
C17_Witness ==
    /\ sqlCall.op = "update"
    /\ sqlCall.ret # Null
    /\ db[sqlCall.id] = sqlCall.ret
    /\ "price" \in DOMAIN sqlCall.ret
    /\ flushes = 2

\* the EntityManager calls of an updateMany over U when the ids in known exist: a lookup
\* per element in list order, an assign after each lookup that found something, and
\* then one flush
RECURSIVE LookupsThenOneFlush(_, _)
LookupsThenOneFlush(U, known) ==
    IF U = <<>> THEN <<"persistAndFlush">>
    ELSE (IF U[1].id \in known THEN <<"findOne", "assign">> ELSE <<"findOne">>)
            \o LookupsThenOneFlush(Tail(U), known)

\* C18: relational updateMany looks each target up by id, one by one in list order, merges
\* the fields onto each entity found and flushes exactly once, after all lookups, exactly
\* the entities found; the result is as long as the input, with null exactly where the
\* id was not found, and entries not found do not keep the found ones from being
\* persisted.
C18_RelationalUpdateManyFlushesOnce ==
    [][sqlCall'.op = "updateMany"
          => LET U == sqlCall'.updates
                 R == sqlCall'.rets
                 foundAt == { i \in 1..Len(U) : U[i].id \in DOMAIN db }
                 lastFor(i, f) == CHOOSE k \in 1..Len(U) :
                                     /\ U[k].id = U[i].id /\ f \in DOMAIN U[k].data
                                     /\ \A n \in 1..Len(U) :
                                           (U[n].id = U[i].id /\ f \in DOMAIN U[n].data) => n <= k
             IN  /\ Len(R) = Len(U)
                 /\ \A i \in 1..Len(U) : R[i] = Null <=> i \notin foundAt
                 /\ flushes' = flushes + 1
                 /\ sqlCall'.em = LookupsThenOneFlush(U, DOMAIN db)
                 /\ Len(sqlCall'.flushed) = Cardinality(foundAt)
                 /\ \A i \in foundAt : \E n \in 1..Len(sqlCall'.flushed) :
                       sqlCall'.flushed[n]["id"] = U[i].id
                 /\ \A i \in foundAt :
                       /\ db'[U[i].id] = R[i]
                       /\ \A f \in DOMAIN U[i].data : R[i][f] = U[lastFor(i, f)].data[f]
                       /\ \A f \in (DOMAIN db[U[i].id]) \ UNION { DOMAIN U[k].data :
                                       k \in { n \in 1..Len(U) : U[n].id = U[i].id } } :
                             R[i][f] = db[U[i].id][f]
                 /\ DOMAIN db' = DOMAIN db
                 /\ \A i \in DOMAIN db :
                       i \notin { U[k].id : k \in 1..Len(U) } => db'[i] = db[i]]_vars

\* an updateMany whose first id was not found persisted the change of its second
C18_Witness ==
    /\ sqlCall.op = "updateMany"
    /\ sqlCall.rets[1] = Null
    /\ sqlCall.rets[2] # Null
    /\ db[sqlCall.updates[2].id] = sqlCall.rets[2]
    /\ Len(sqlCall.flushed) = 1

----------------------------------------------------------------------------
\* The backend selector

----------------------------------------------------------------------------
\* The product service

\* the number of records of s with the given name
RECURSIVE CountNamed(_, _)
CountNamed(s, n) ==
    IF s = <<>> THEN 0
    ELSE (IF "name" \in DOMAIN Head(s) /\ Head(s)["name"] = n THEN 1 ELSE 0)
            + CountNamed(Tail(s), n)

\* C20: of two ProductService.create calls with the same non-empty name, the first
\* awaited before the second begins, the first succeeds and the second is rejected with
\* an 'already exists' error without the store's create being called, and the store
\* holds exactly one record with that name.
C20_SecondCreateWithTheNameIsRejected ==
    \A c \in Callers :
        (/\ svc[c].hooks = "product"
         /\ svc[c].pc \in {"returned", "threw"}
         /\ svc[c].input["name"] # ""
         /\ svc[c].input["price"] >= 0)
            => /\ CountNamed(store, svc[c].input["name"]) = 1
               /\ IF svc[c].taken
                  THEN /\ svc[c].pc = "threw"
                       /\ svc[c].error = "Product name '" \o svc[c].input["name"]
                                            \o "' already exists."
                       /\ \A i \in 1..Len(svc[c].events) :
                             svc[c].events[i].name # "repo.create"
                  ELSE svc[c].pc = "returned"

\* the integer nearest to num / den, a half rounded up
NearestHalfUp(num, den) ==
    CHOOSE t \in 0..num : 2 * den * t - den <= 2 * num /\ 2 * num < 2 * den * t + den

\* C21: for every non-negative integer price, ProductService.create({name, price}) with
\* a name that is free returns and stores a record with tax = round(price * 21 / 100),
\* a half rounded up, and totalPrice = price + tax (21 and 121 for price 100); a tax or
\* totalPrice supplied by the caller is overwritten by the computed values.
C21_CreateStoresTheComputedTaxAndTotal ==
    \A c \in Callers :
        (/\ svc[c].hooks = "product"
         /\ svc[c].pc \in {"returned", "threw"}
         /\ svc[c].input["name"] # ""
         /\ svc[c].input["price"] >= 0
         /\ ~svc[c].taken)
            => /\ svc[c].pc = "returned"
               /\ svc[c].ret["tax"] = NearestHalfUp(21 * svc[c].input["price"], 100)
               /\ svc[c].ret["totalPrice"] = svc[c].input["price"] + svc[c].ret["tax"]
               /\ svc[c].input["price"] = 100
                     => svc[c].ret["tax"] = 21 /\ svc[c].ret["totalPrice"] = 121
               /\ \E i \in 1..Len(store) : store[i] = svc[c].ret

----------------------------------------------------------------------------
\* Identifiers of the in-memory store

\* C22: in every state reached by creates, updates, deletes and their bulk variants,
\* with partials that may carry an id, every record of the store has an identifier and
\* no two records have the same identifier.
C22_IdentifiersAreUnique ==
    /\ \A i \in 1..Len(store) : "id" \in DOMAIN store[i]
    /\ \A i, j \in 1..Len(store) : i # j => store[i]["id"] # store[j]["id"]

\* C23: an update(id, partial) that returns a record u, whatever the partial (also one
\* with an id field), leaves u.id equal to id, makes findById(id) return u, and keeps
\* the record at the position it had in the store before the update.
C23_UpdateKeepsIdentityAndPosition ==
    [][(lastCall'.op = "update" /\ lastCall'.ret # Null)
          => LET id    == lastCall'.id
                 u     == lastCall'.ret
                 index == FindIndex(WithId(store, id))
             IN  /\ u["id"] = id
                 /\ findByIdResult(store', id) = u
                 /\ Len(store') = Len(store)
                 /\ index # 0
                 /\ store'[index] = u]_vars

----------------------------------------------------------------------------
\* Reads of the in-memory store

ReadOps == {"findById", "findOne", "findAll", "find"}

\* C24: findById, findOne, findAll and find, with any filter and any options (orderBy
\* included), leave the store's sequence of records, its order and the transaction
\* stack as they were; a find with orderBy does not reorder the store, so a findAll()
\* after it returns what a findAll() before it returned.
C24_ReadsChangeNothing ==
    [][lastCall'.op \in ReadOps
          => /\ store' = store
             /\ transactionStack' = transactionStack
             /\ findAllResult(store') = findAllResult(store)]_vars

\* inside a transaction, a find without filters has returned both records of the store
\* in an order that is not the store's
C24_Witness ==
    /\ lastCall.op = "find"
    /\ lastCall.filters = Undefined
    /\ Truthy(lastCall.options, "orderBy")
    /\ Len(store) = 2
    /\ Len(lastCall.rets) = 2
    /\ lastCall.rets # store
    /\ transactionStack # <<>>

----------------------------------------------------------------------------
\* Calls on the in-memory store that are not awaited

\* the store and the number of generated ids after one call, applied on its own
ApplyCall(st, call) ==
    CASE call.op = "create" ->
            LET e == createEffect(st.store, st.uuid, call.data)
            IN  [store |-> e.store, uuid |-> e.uuid]
      [] call.op = "update" ->
            [store |-> updateEffect(st.store, call.id, call.data).store, uuid |-> st.uuid]
      [] call.op = "delete" ->
            [store |-> deleteEffect(st.store, call.id), uuid |-> st.uuid]

\* the calls applied one after another, each on the outcome of the one before
RECURSIVE ApplyInOrder(_, _)
ApplyInOrder(st, calls) ==
    IF calls = <<>> THEN st ELSE ApplyInOrder(ApplyCall(st, Head(calls)), Tail(calls))

\* the number of calls of the given operation
RECURSIVE CountOp(_, _)
CountOp(calls, op) ==
    IF calls = <<>> THEN 0
    ELSE (IF Head(calls).op = op THEN 1 ELSE 0) + CountOp(Tail(calls), op)

\* C25: when creates, updates and deletes are issued on one store without awaiting each
\* other, in every interleaving the store equals the outcome of the same calls applied
\* one after another in the order of issue; when only creates were issued, every one
\* of the n created records is in the store, once.
C25_UnawaitedCallsApplyInIssueOrder ==
    /\ store = ApplyInOrder([store |-> <<>>, uuid |-> 0], issued).store
    /\ CountOp(issued, "create") = Len(issued)
          => /\ Len(store) = Len(issued)
             /\ \A i \in 1..Len(issued) :
                   \A f \in DOMAIN issued[i].data : store[i][f] = issued[i].data[f]

\* caller 1 issued a delete of a stored record and, with that promise still not
\* consumed, caller 2 issued a create and consumed its promise; the created record is
\* the last of the store
C25_Witness ==
    /\ Len(issued) = 3
    /\ issued[2].op = "delete" /\ issued[2].by = 1
    /\ issued[3].op = "create" /\ issued[3].by = 2
    /\ pending[1] # NoPromise /\ pending[1].call.op = "delete"
    /\ Len(pending[1].after) = 0
    /\ pending[2] = NoPromise
    /\ Len(store) = 1
    /\ store[1]["name"] = issued[3].data["name"]

----------------------------------------------------------------------------
\* The product service under calls that do not await each other

\* the product names the callers pass
NamesInUse == { svc[c].input["name"] : c \in { d \in ParallelCallers : svc[d].hooks = "product" } }

\* the call of c has passed beforeCreate
PastBeforeCreate(c) == svc[c].pc \in {"awaitBefore", "awaitRepo", "awaitAfter", "returned"}

\* the events of the call of c include the store's create
CalledRepoCreate(c) ==
    \E i \in 1..Len(svc[c].events) : svc[c].events[i].name = "repo.create"

\* C26 as stated: of two ProductService.create calls with the same name issued on one
\* store without awaiting each other, at most one succeeds in every interleaving, and
\* the store never contains two records with the same name.
C26_AtMostOneOfTwoRacingCreatesSucceeds ==
    /\ \A n \in NamesInUse : CountNamed(store, n) <= 1
    /\ \A c, d \in ParallelCallers :
          (/\ c # d
           /\ svc[c].hooks = "product" /\ svc[d].hooks = "product"
           /\ svc[c].input["name"] = svc[d].input["name"])
              => ~(svc[c].pc = "returned" /\ svc[d].pc = "returned")

\* C26, amended: of ProductService.create calls issued on one store without awaiting
\* each other, a call whose findOne probe found a record with its name is rejected with
\* 'already exists' and never calls the store's create; only a call whose probe found
\* none goes on to the store; the calls whose probes both ran before either record was
\* stored both succeed and leave two records with the name.
C26_AProbeThatFindsTheNameRejectsTheCall ==
    \A c \in ParallelCallers :
        svc[c].hooks = "product"
            => /\ PastBeforeCreate(c) => svc[c].probe = Null
               /\ CalledRepoCreate(c) => svc[c].probe = Null
               /\ (svc[c].pc \notin {"awaitValidate", "awaitFindOne"} /\ svc[c].probe # Null)
                     => /\ svc[c].pc = "threw"
                        /\ svc[c].error = "Product name '" \o svc[c].input["name"]
                                             \o "' already exists."
                        /\ ~CalledRepoCreate(c)

\* both callers created "Widget", each probing before the other's record was stored,
\* and both succeeded: the store holds two records with the name; a third call, issued
\* afterwards, has found one of them and was rejected
C26_Witness ==
    /\ CountNamed(store, "Widget") = 2
    /\ svc[2].pc = "returned"
    /\ svc[2].input["name"] = "Widget"
    /\ svc[2].probe = Null
    /\ svc[1].pc = "threw"
    /\ svc[1].input["name"] = "Widget"
    /\ svc[1].probe # Null
    /\ ~CalledRepoCreate(1)

====
